---- MODULE Spec2Model ----
(***************************************************************************)
(* The finite state machine library built in section 2 of the workshop:    *)
(* the normalizers, createMachine (initialState and transition) and        *)
(* interpret (the service: currentState, send, start, stop, subscribe);    *)
(* and betterBulb, the hand-written light bulb of section 1.               *)
(*                                                                         *)
(* JavaScript values are modelled as TLA+ values:                          *)
(*   - an object is a record; a property the object does not have is a     *)
(*     field the record does not have (Get reads it as undefined);         *)
(*   - a value whose JavaScript type the code inspects (typeof,            *)
(*     Array.isArray inside concat, truthiness) is a record with a         *)
(*     `typeof` field next to its payload;                                 *)
(*   - a function of the configuration (guard, updater, action) is its     *)
(*     name; Call gives what it returns.                                   *)
(***************************************************************************)
EXTENDS Integers, Sequences, FiniteSets, TLC

VARIABLES
    config,         \* the configuration object given to createMachine
    made,           \* "no" | "ok" | "threw": outcome of createMachine(config)
    configContext,  \* content of the object config.context (closure `context`)
    service,        \* TRUE once interpret(machine) has returned
    state,          \* interpret: let state
    isStarted,      \* interpret: let isStarted
    listeners,      \* interpret: const listeners (a Set, in insertion order)
    last,           \* the last call made and what it returned or threw
    execLog,        \* the action execs invoked by the last call, in order
    notified,       \* the listener calls made by the last call, in order
    sends,          \* number of sends a started service has processed
    probe,          \* one earlier transition call, kept for comparison
    handles,        \* the listeners whose unsubscribe handle the program holds
    bulb,           \* betterBulb: the closure of the object it returned
    bulbCalls       \* the calls made on the bulb so far, in order

vars == <<config, made, configContext, service, state, isStarted, listeners,
          last, execLog, notified, sends, probe, handles, bulb, bulbCalls>>

-----------------------------------------------------------------------------
(* Bounds *)

\* sends processed by one service
MaxSends == 5

\* calls of send the callbacks make during one call of send
MaxReentry == 1

\* largest count in a context the program passes to machine.transition
MaxCount == 2

\* largest number of quarters in a context the program passes to
\* machine.transition
MaxQuarters == 4

\* calls made on one bulb
MaxCalls == 4

-----------------------------------------------------------------------------
(* JavaScript values *)

Undefined == [typeof |-> "undefined"]

Str(s) == [typeof |-> "string", str |-> s]

Obj(o) == [typeof |-> "object", obj |-> o]

Fn(name) == [typeof |-> "function", name |-> name]

Num(n) == [typeof |-> "number", num |-> n]

Arr(items) == [typeof |-> "array", items |-> items]

\* the elements of a sequence
Range(seq) == {seq[i] : i \in 1..Len(seq)}

\* obj[key], undefined when the object has no such property
Get(obj, key) == IF key \in DOMAIN obj THEN obj[key] ELSE "undefined"

\* !x for the values a transition entry can be
Falsy(x) == x.typeof = "undefined" \/ (x.typeof = "string" /\ x.str = "")

\* what a function of the configuration returns
Call(fn, context, event) ==
    CASE fn = "() => true" -> TRUE
      [] fn = "() => false" -> FALSE
      [] fn = "event.foo === 'bar'" -> Get(event, "foo") = "bar"
      [] fn = "context.deposited >= 100" -> context.deposited >= 100
      [] fn = "context.count + 1" -> context.count + 1
      [] fn = "context.count * 2" -> context.count * 2
      [] fn = "context.count" -> context.count
      [] fn = "context.spare" -> context.spare
      [] fn = "context.deposited + 25" -> context.deposited + 25
      [] fn = "({ count: context.count + 1 })" -> [count |-> context.count + 1]

-----------------------------------------------------------------------------
(* Normalizers *)

toArray(value) ==
    IF value.typeof = "undefined" THEN <<>>
    ELSE IF value.typeof = "array" THEN value.items
    ELSE <<value>>

toStateObject(s) == IF s.typeof = "string" THEN [value |-> s.str] ELSE s.obj

toEventObject(event) ==
    IF event.typeof = "string" THEN [type |-> event.str] ELSE event.obj

toTransitionObject(tr) ==
    IF tr.typeof = "string" THEN [target |-> tr.str] ELSE tr.obj

toActionObject(action) ==
    CASE action.typeof = "string" -> [type |-> action.str]
      [] action.typeof = "function" -> [type |-> action.name, exec |-> action.name]
      [] OTHER -> action.obj

ASSIGN_ACTION_TYPE == "__assign__"

assign(assignment) ==
    Obj([type |-> ASSIGN_ACTION_TYPE, assignment |-> assignment])

\* a concat that puts its arguments in the opposite order
concatReversed(args) ==
    LET RECURSIVE cat(_)
        cat(i) == IF i < 1 THEN <<>>
                  ELSE (IF args[i].typeof = "array" THEN args[i].items
                        ELSE <<args[i]>>) \o cat(i - 1)
    IN cat(Len(args))

\* [].concat(a, b, c): an array argument contributes its items, any other
\* argument contributes itself
concat(args) ==
    LET RECURSIVE cat(_)
        cat(i) == IF i > Len(args) THEN <<>>
                  ELSE (IF args[i].typeof = "array" THEN args[i].items
                        ELSE <<args[i]>>) \o cat(i + 1)
    IN cat(1)

\* array.filter(Boolean) on a list of actions
filterBoolean(items) == SelectSeq(items, LAMBDA x : ~Falsy(x))

\* array.map(toActionObject)
mapToActionObject(items) == [i \in 1..Len(items) |-> toActionObject(items[i])]

-----------------------------------------------------------------------------
(* Configurations *)

\* a light bulb that can be switched on again once it is broken
LightBulbRepairable ==
    [id |-> "light-bulb",
     initial |-> "unlit",
     states |->
        [lit |-> [exit |-> Arr(<<Fn("litExitAction")>>),
                  on |-> [TOGGLE |-> Str("unlit"),
                          BREAK |-> Obj([target |-> "broken",
                                         actions |-> Arr(<<Fn("litToBrokenAction")>>)])]],
         unlit |-> [on |-> [TOGGLE |-> Str("lit"),
                            BREAK |-> Str("broken")]],
         broken |-> [entry |-> Arr(<<Fn("brokenEntryAction")>>),
                     on |-> [TOGGLE |-> Str("lit")]]]]

\* the light bulb of the createMachine tests, with its exit, transition and
\* entry actions
LightBulb ==
    [id |-> "light-bulb",
     initial |-> "unlit",
     states |->
        [lit |-> [exit |-> Arr(<<Fn("litExitAction")>>),
                  on |-> [TOGGLE |-> Str("unlit"),
                          BREAK |-> Obj([target |-> "broken",
                                         actions |-> Arr(<<Fn("litToBrokenAction")>>)])]],
         unlit |-> [on |-> [TOGGLE |-> Str("lit"),
                            BREAK |-> Str("broken")]],
         broken |-> [entry |-> Arr(<<Fn("brokenEntryAction")>>)]]]

IncrementObject == assign(Obj([count |-> Fn("context.count + 1")]))

IncrementFunction == assign(Fn("({ count: context.count + 1 })"))

\* the counter of the assign test
Counter ==
    [id |-> "counter",
     initial |-> "idle",
     context |-> [count |-> 0],
     states |->
        [idle |->
            [on |-> [INCREMENT_WITH_OBJECT |->
                        Obj([target |-> "idle",
                             actions |-> Arr(<<IncrementObject>>)]),
                     INCREMENT_WITH_FUNCTION |->
                        Obj([target |-> "idle",
                             actions |-> Arr(<<IncrementFunction>>)])]]]]

\* the README's machine that logs the count between two increments
Logger ==
    [id |-> "logger",
     initial |-> "idle",
     context |-> [count |-> 0],
     states |->
        [idle |->
            [on |-> [INCREMENT |->
                        Obj([actions |-> Arr(<<IncrementObject, Fn("log1"),
                                               IncrementObject, Fn("log2")>>)])]]]]

\* the vending machine of the guards lesson
VendingMachine ==
    [id |-> "vending-machine",
     initial |-> "idle",
     context |-> [change |-> 0, deposited |-> 0],
     states |->
        [idle |->
            [on |-> [DEPOSIT_QUARTER |->
                        Obj([actions |->
                               Arr(<<assign(Obj([deposited |->
                                        Fn("context.deposited + 25")]))>>)]),
                     VEND |-> Obj([target |-> "vending",
                                   cond |-> "context.deposited >= 100"])]],
         vending |-> [on |-> [DONE |-> Str("idle")]]]]

\* the guards of the first and of the second candidate of MultiChoice
Guards1 == {"() => false", "event.foo === 'bar'"}

Guards2 == {"() => true", "event.foo === 'bar'"}

\* the multi-choice machine of the guard tests: three guarded candidates
\* for CHOOSE, a transition without target, a list whose first entry is
\* falsy, a transition whose target is no state, and (in D) the empty
\* transition object
MultiChoice(g1, g2) ==
    [id |-> "multi-choice",
     initial |-> "A",
     states |->
        [A |-> [exit |-> Fn("exitA"),
                on |-> [CHOOSE |->
                           Arr(<<Obj([target |-> "B", cond |-> g1,
                                      actions |-> Fn("toB")]),
                                 Obj([target |-> "C", cond |-> g2,
                                      actions |-> Fn("toC")]),
                                 Obj([target |-> "D", cond |-> "() => true",
                                      actions |-> Str("toD")])>>),
                        STAY |-> Obj([cond |-> g1]),
                        SKIP |-> Arr(<<Undefined, Str("B")>>),
                        LOST |-> Str("nowhere")]],
         B |-> [entry |-> Fn("entryB")],
         C |-> [entry |-> Arr(<<Fn("entryC")>>)],
         D |-> [on |-> [BACK |-> Str("A"), STAY |-> Obj(<< >>)]]]]

\* a counter whose initial state has an assign action and an ordinary action
\* among its entry actions
EntryCounter ==
    [id |-> "entry-counter",
     initial |-> "idle",
     context |-> [count |-> 0],
     states |->
        [idle |-> [entry |-> Arr(<<IncrementObject, Fn("entryIdle")>>),
                   on |-> [RESET |-> Str("idle")]]]]

\* a machine whose assign actions sit among the exit, the transition and
\* the entry actions: the literal assign of the test without target (CHOOSE),
\* an assign whose two updaters read each other's key (SWAP), a function
\* assign on a context with more keys than it returns (REPLACE), guarded
\* candidates with assign actions, and a falsy candidate after a guarded one
Assigner ==
    [id |-> "assigner",
     initial |-> "A",
     context |-> [count |-> 1, spare |-> 0, foo |-> "bar"],
     states |->
        [A |-> [exit |-> Arr(<<IncrementObject, Fn("exitA")>>),
                entry |-> Fn("entryA"),
                on |-> [CHOOSE |->
                           Obj([actions |-> assign(Obj([foo |-> Str("baz")]))]),
                        SWAP |->
                           Obj([actions |->
                                  Arr(<<assign(Obj([count |-> Fn("context.spare"),
                                                    spare |-> Fn("context.count")])),
                                        Fn("swapped")>>)]),
                        REPLACE |->
                           Obj([target |-> "B",
                                actions |-> Arr(<<IncrementFunction>>)]),
                        GO |->
                           Obj([target |-> "B",
                                actions |->
                                  Arr(<<assign(Obj([spare |-> Fn("context.count")])),
                                        Fn("toB")>>)]),
                        GUARDED |->
                           Arr(<<Obj([target |-> "B", cond |-> "() => false",
                                      actions |-> IncrementObject]),
                                 Obj([cond |-> "event.foo === 'bar'",
                                      actions |->
                                        assign(Obj([foo |-> Str("baz")]))])>>),
                        SKIP |->
                           Arr(<<Obj([target |-> "B", cond |-> "() => false"]),
                                 Undefined, Str("B")>>)]],
         B |-> [entry |-> Arr(<<assign(Obj([count |-> Fn("context.count * 2")])),
                                Fn("entryB")>>),
                on |-> [BACK |-> Str("A")]]]]

\* a configuration whose initial state is no state
NoInitial ==
    [id |-> "no-initial",
     initial |-> "missing",
     states |-> [A |-> [on |-> [GO |-> Str("A")]]]]

Configs ==
    {LightBulb, Counter, Logger, VendingMachine, EntryCounter, NoInitial}
      \cup {MultiChoice(g1, g2) : g1 \in Guards1, g2 \in Guards2}

\* the events sent to, and the states asked about, a machine of each kind
EventsOf(c) ==
    CASE c.id = "light-bulb" ->
            {Str("TOGGLE"), Str("BREAK"), Str("INVALID_EVENT")}
      [] c.id = "counter" ->
            {Str("INCREMENT_WITH_OBJECT"), Str("INCREMENT_WITH_FUNCTION")}
      [] c.id = "logger" ->
            {Str("INCREMENT"), Str("INVALID_EVENT")}
      [] c.id = "vending-machine" ->
            {Str("DEPOSIT_QUARTER"), Str("VEND"), Str("DONE")}
      [] c.id = "entry-counter" ->
            {Str("RESET"), Str("INVALID_EVENT")}
      [] c.id = "assigner" ->
            {Str("CHOOSE"), Str("SWAP"), Str("REPLACE"), Str("GO"),
             Str("GUARDED"), Obj([type |-> "GUARDED", foo |-> "bar"]),
             Str("SKIP"), Str("BACK"), Str("INVALID_EVENT")}
      [] c.id = "multi-choice" ->
            {Str("CHOOSE"), Obj([type |-> "CHOOSE", foo |-> "bar"]),
             Str("STAY"), Str("SKIP"), Str("LOST"), Obj([foo |-> "bar"])}
      [] OTHER -> {Str("GO")}

\* the state names the program asks machine.transition about
StateNames(c) == DOMAIN c.states \cup {"invalidState"}

\* the contexts of the state descriptors the program builds itself
ContextsOf(c) ==
    CASE c.id \in {"counter", "logger", "entry-counter"} ->
            {[count |-> n] : n \in 0..MaxCount}
      [] c.id = "vending-machine" ->
            {[change |-> 0, deposited |-> 25 * n] : n \in 0..MaxQuarters}
      [] c.id = "assigner" ->
            {[count |-> n, spare |-> 0, foo |-> "bar"] : n \in 0..MaxCount}
      [] OTHER -> {}

-----------------------------------------------------------------------------
(* createMachine *)

\* an undefined context is modelled as the object without properties, which
\* is what the spread in the assign fold makes of it
NoContext == << >>

\* const { context } = config
contextOf(c) == IF "context" \in DOMAIN c THEN c.context ELSE NoContext

\* new Error(message); the template literal is kept as its parts
Error(message) == [name |-> "Error", message |-> message]

\* reading a property of undefined
TypeError(property) ==
    [name |-> "TypeError",
     message |-> <<"Cannot read property '", property, "' of undefined">>]

\* the outcome of a call of transition: the descriptor it returns or the
\* error it throws, with what the call did on the way: the guards it evaluated
\* (conds), the action execs it invoked (ran) and the content it left in the
\* object config.context (context)
\* ref tells which object the descriptor's context is: config.context itself
\* or an object the call created; folded lists the assign actions the call
\* folded, each with nextContext as it was before and after it
Return(result, conds, ran, context) ==
    [threw |-> FALSE, result |-> result, conds |-> conds, ran |-> ran,
     context |-> context, ref |-> "config", folded |-> <<>>]

Throw(error, conds, context) ==
    [threw |-> TRUE, error |-> error, conds |-> conds, ran |-> <<>>,
     context |-> context]

\* a tempContext that is nextContext itself, not a copy of it
spreadAlias(nextContext) == nextContext

\* let tempContext = { ...nextContext }: a fresh object with the same content
spread(nextContext) == [ref |-> "fresh", obj |-> nextContext.obj]

\* an assignment of the keys to nextContext itself instead of tempContext
assignKeysInPlace(tempContext, assignment, nextContext, eventObject) ==
    [ref |-> nextContext.ref,
     obj |-> [key \in DOMAIN nextContext.obj \cup DOMAIN assignment |->
                IF key \in DOMAIN assignment
                THEN IF assignment[key].typeof = "function"
                     THEN Call(assignment[key].name, nextContext.obj, eventObject)
                     ELSE IF assignment[key].typeof = "number"
                     THEN assignment[key].num
                     ELSE assignment[key].str
                ELSE nextContext.obj[key]]]

\* an assignment in which every updater reads the keys assigned before it
assignKeysInTurn(tempContext, assignment, nextContext, eventObject) ==
    LET RECURSIVE turn(_, _)
        turn(obj, keys) ==
            IF keys = {} THEN obj
            ELSE LET key == CHOOSE k \in keys : TRUE
                     v == IF assignment[key].typeof = "function"
                          THEN Call(assignment[key].name, obj, eventObject)
                          ELSE IF assignment[key].typeof = "number"
                          THEN assignment[key].num
                          ELSE assignment[key].str
                 IN turn([k \in DOMAIN obj \cup {key} |->
                            IF k = key THEN v ELSE obj[k]],
                         keys \ {key})
    IN [ref |-> tempContext.ref,
        obj |-> turn(tempContext.obj, DOMAIN assignment)]

\* tempContext[key] = v for every key of an object assignment; the updaters
\* read nextContext
assignKeys(tempContext, assignment, nextContext, eventObject) ==
    [ref |-> tempContext.ref,
     obj |-> [key \in DOMAIN tempContext.obj \cup DOMAIN assignment |->
                IF key \in DOMAIN assignment
                THEN IF assignment[key].typeof = "function"
                     THEN Call(assignment[key].name, nextContext.obj, eventObject)
                     ELSE IF assignment[key].typeof = "number"
                     THEN assignment[key].num
                     ELSE assignment[key].str
                ELSE tempContext.obj[key]]]

\* a fold that merges what an assignment function returns into the context
foldAssignMerges(acc, action, eventObject) ==
    LET assignment == action.assignment
        nextContext == acc.nextContext
        returned == Call(assignment.name, nextContext.obj, eventObject)
        tempContext ==
            IF assignment.typeof = "function"
            THEN [ref |-> "fresh",
                  obj |-> [key \in DOMAIN nextContext.obj \cup DOMAIN returned |->
                             IF key \in DOMAIN returned THEN returned[key]
                             ELSE nextContext.obj[key]]]
            ELSE assignKeys(spread(nextContext), assignment.obj,
                            nextContext, eventObject)
    IN [acc EXCEPT !.assigned = TRUE,
                   !.nextContext = tempContext,
                   !.context = IF tempContext.ref = "config"
                               THEN tempContext.obj ELSE @,
                   !.folded = Append(@, [action |-> action,
                                         before |-> nextContext.obj,
                                         after |-> tempContext.obj])]

\* the callback of the second filter at an assign action: it folds the
\* assignment into nextContext
foldAssign(acc, action, eventObject) ==
    LET assignment == action.assignment
        nextContext == acc.nextContext
        tempContext ==
            IF assignment.typeof = "function"
            THEN [ref |-> "fresh",
                  obj |-> Call(assignment.name, nextContext.obj, eventObject)]
            ELSE assignKeys(spread(nextContext), assignment.obj,
                            nextContext, eventObject)
    IN [acc EXCEPT !.assigned = TRUE,
                   !.nextContext = tempContext,
                   !.context = IF tempContext.ref = "config"
                               THEN tempContext.obj ELSE @,
                   !.folded = Append(@, [action |-> action,
                                         before |-> nextContext.obj,
                                         after |-> tempContext.obj])]

\* a callback that invokes the exec of an action it keeps
assignFilterRuns(acc, action, eventObject) ==
    IF Get(action, "type") # ASSIGN_ACTION_TYPE
    THEN [acc EXCEPT !.kept = Append(@, action),
                     !.ran = IF "exec" \in DOMAIN action
                             THEN Append(@, [exec |-> action.exec,
                                             context |-> acc.nextContext.obj,
                                             event |-> eventObject])
                             ELSE @]
    ELSE foldAssign(acc, action, eventObject)

\* the callback of the second filter, applied to one action: acc holds the
\* closure variables assigned and nextContext, the actions kept so far, the
\* execs invoked and the content of the object config.context
assignFilter(acc, action, eventObject) ==
    IF Get(action, "type") # ASSIGN_ACTION_TYPE
    THEN [acc EXCEPT !.kept = Append(@, action)]
    ELSE foldAssign(acc, action, eventObject)

RECURSIVE filterAssign(_, _, _, _)
\* a filter that visits the actions from the last to the first
filterAssignBackwards(acc, actions, i, eventObject) ==
    IF i > Len(actions) THEN acc
    ELSE filterAssign(assignFilter(acc, actions[Len(actions) + 1 - i],
                                   eventObject),
                      actions, i + 1, eventObject)

\* .filter(action => ...) over the normalized actions, from index i
filterAssign(acc, actions, i, eventObject) ==
    IF i > Len(actions) THEN acc
    ELSE filterAssign(assignFilter(acc, actions[i], eventObject), actions,
                      i + 1, eventObject)

\* a changed that is true for every taken transition
changedAlways(target, value, allActions, assigned) == TRUE

\* changed: target !== value || allActions.length > 0 || assigned
changed(target, value, allActions, assigned) ==
    target # value \/ Len(allActions) > 0 \/ assigned

\* a body that treats a transition to the state it starts from as internal:
\* it leaves out the exit and the entry actions
takeInternal(c, context, value, stateConfig, eventObject, target, actions, conds) ==
    IF target \notin DOMAIN c.states
    THEN Throw(TypeError("entry"), conds, context)
    ELSE LET nextStateConfig == c.states[target]
             normalized ==
                mapToActionObject(filterBoolean(concat(
                    <<IF "exit" \in DOMAIN stateConfig /\ target # value
                      THEN stateConfig.exit ELSE Undefined,
                      actions,
                      IF "entry" \in DOMAIN nextStateConfig /\ target # value
                      THEN nextStateConfig.entry ELSE Undefined>>)))
             acc == filterAssign(
                      [assigned |-> FALSE,
                       nextContext |-> [ref |-> "config", obj |-> context],
                       kept |-> <<>>, ran |-> <<>>, context |-> context,
                       folded |-> <<>>],
                      normalized, 1, eventObject)
             allActions == acc.kept
         IN [Return([actions |-> allActions,
                     changed |-> changed(target, value, allActions,
                                         acc.assigned),
                     context |-> acc.nextContext.obj,
                     value |-> target],
                    conds, acc.ran, acc.context)
               EXCEPT !.ref = acc.nextContext.ref, !.folded = acc.folded]

\* the body of `if (cond(context, eventObject))`
take(c, context, value, stateConfig, eventObject, target, actions, conds) ==
    IF target \notin DOMAIN c.states
    THEN Throw(TypeError("entry"), conds, context)
    ELSE LET nextStateConfig == c.states[target]
             normalized ==
                mapToActionObject(filterBoolean(concat(
                    <<IF "exit" \in DOMAIN stateConfig
                      THEN stateConfig.exit ELSE Undefined,
                      actions,
                      IF "entry" \in DOMAIN nextStateConfig
                      THEN nextStateConfig.entry ELSE Undefined>>)))
             acc == filterAssign(
                      [assigned |-> FALSE,
                       nextContext |-> [ref |-> "config", obj |-> context],
                       kept |-> <<>>, ran |-> <<>>, context |-> context,
                       folded |-> <<>>],
                      normalized, 1, eventObject)
             allActions == acc.kept
         IN [Return([actions |-> allActions,
                     changed |-> changed(target, value, allActions,
                                         acc.assigned),
                     context |-> acc.nextContext.obj,
                     value |-> target],
                    conds, acc.ran, acc.context)
               EXCEPT !.ref = acc.nextContext.ref, !.folded = acc.folded]

\* a loop that does not stop at a satisfied guard: the last one wins
forOfLastWins(c, context, value, stateConfig, eventObject, transitions, i, conds) ==
    LET condOf(j) == LET tr == toTransitionObject(transitions[j])
                     IN IF "cond" \in DOMAIN tr THEN tr.cond ELSE "() => true"
        live == SelectSeq([j \in 1..Len(transitions) |-> j],
                          LAMBDA j : j >= i /\ ~Falsy(transitions[j]))
        called == conds \o [n \in 1..Len(live) |->
                              [index |-> live[n], cond |-> condOf(live[n]),
                               context |-> context, event |-> eventObject]]
        sat == {j \in Range(live) : Call(condOf(j), context, eventObject)}
    IN IF sat = {}
       THEN Return([actions |-> <<>>, changed |-> FALSE, context |-> context,
                    value |-> value], called, <<>>, context)
       ELSE LET k == CHOOSE j \in sat : \A m \in sat : m <= j
                tr == toTransitionObject(transitions[k])
            IN take(c, context, value, stateConfig, eventObject,
                    IF "target" \in DOMAIN tr THEN tr.target ELSE value,
                    IF "actions" \in DOMAIN tr THEN tr.actions ELSE Arr(<<>>),
                    called)

RECURSIVE forOf(_, _, _, _, _, _, _, _)
\* a loop that passes over a falsy candidate and goes on with the next one
forOfSkipsFalsy(c, context, value, stateConfig, eventObject, transitions, i, conds) ==
    LET transitionFailure ==
            [actions |-> <<>>, changed |-> FALSE, context |-> context,
             value |-> value]
    IN IF i > Len(transitions)
       THEN Return(transitionFailure, conds, <<>>, context)
       ELSE IF Falsy(transitions[i])
       THEN forOf(c, context, value, stateConfig, eventObject,
                  transitions, i + 1, conds)
       ELSE LET tr == toTransitionObject(transitions[i])
                target == IF "target" \in DOMAIN tr THEN tr.target ELSE value
                actions == IF "actions" \in DOMAIN tr THEN tr.actions ELSE Arr(<<>>)
                cond == IF "cond" \in DOMAIN tr THEN tr.cond ELSE "() => true"
                called == Append(conds, [index |-> i, cond |-> cond,
                                         context |-> context,
                                         event |-> eventObject])
            IN IF Call(cond, context, eventObject)
               THEN take(c, context, value, stateConfig, eventObject, target,
                         actions, called)
               ELSE forOf(c, context, value, stateConfig, eventObject,
                          transitions, i + 1, called)

\* a loop that takes the last candidate when no guard was satisfied
forOfFallsBack(c, context, value, stateConfig, eventObject, transitions, i, conds) ==
    LET transitionFailure ==
            [actions |-> <<>>, changed |-> FALSE, context |-> context,
             value |-> value]
    IN IF i > Len(transitions)
       THEN Return(transitionFailure, conds, <<>>, context)
       ELSE IF Falsy(transitions[i])
       THEN Return(transitionFailure, conds, <<>>, context)
       ELSE LET tr == toTransitionObject(transitions[i])
                target == IF "target" \in DOMAIN tr THEN tr.target ELSE value
                actions == IF "actions" \in DOMAIN tr THEN tr.actions ELSE Arr(<<>>)
                cond == IF "cond" \in DOMAIN tr THEN tr.cond ELSE "() => true"
                called == Append(conds, [index |-> i, cond |-> cond,
                                         context |-> context,
                                         event |-> eventObject])
            IN IF Call(cond, context, eventObject) \/ i = Len(transitions)
               THEN take(c, context, value, stateConfig, eventObject, target,
                         actions, called)
               ELSE forOf(c, context, value, stateConfig, eventObject,
                          transitions, i + 1, called)

\* for (const transition of transitions), from index i
forOf(c, context, value, stateConfig, eventObject, transitions, i, conds) ==
    LET transitionFailure ==
            [actions |-> <<>>, changed |-> FALSE, context |-> context,
             value |-> value]
    IN IF i > Len(transitions)
       THEN Return(transitionFailure, conds, <<>>, context)
       ELSE IF Falsy(transitions[i])
       THEN Return(transitionFailure, conds, <<>>, context)
       ELSE LET tr == toTransitionObject(transitions[i])
                target == IF "target" \in DOMAIN tr THEN tr.target ELSE value
                actions == IF "actions" \in DOMAIN tr THEN tr.actions ELSE Arr(<<>>)
                cond == IF "cond" \in DOMAIN tr THEN tr.cond ELSE "() => true"
                called == Append(conds, [index |-> i, cond |-> cond,
                                         context |-> context,
                                         event |-> eventObject])
            IN IF Call(cond, context, eventObject)
               THEN take(c, context, value, stateConfig, eventObject, target,
                         actions, called)
               ELSE forOf(c, context, value, stateConfig, eventObject,
                          transitions, i + 1, called)

\* transition after the check of the state: transitionFailure, the lookup of
\* the event in the `on` table and the loop over its candidates
transitionFrom(c, context, value, event) ==
    LET stateConfig == c.states[value]
    IN IF "on" \notin DOMAIN stateConfig
       THEN Return([actions |-> <<>>, changed |-> FALSE,
                    context |-> context, value |-> value],
                   <<>>, <<>>, context)
       ELSE LET eventObject == toEventObject(event)
                type == Get(eventObject, "type")
                transitions ==
                    toArray(IF type \in DOMAIN stateConfig.on
                            THEN stateConfig.on[type] ELSE Undefined)
            IN forOf(c, context, value, stateConfig, eventObject,
                     transitions, 1, <<>>)

\* a transition without the check of the state: it reads stateConfig.on of
\* an undefined stateConfig
transitionUnchecked(c, context, s, event) ==
    LET value == Get(toStateObject(s), "value")
    IN IF value \notin DOMAIN c.states
       THEN Throw(TypeError("on"), <<>>, context)
       ELSE transitionFrom(c, context, value, event)

\* machine.transition(state, event) of createMachine(c), where context is the
\* content of the object config.context
transition(c, context, s, event) ==
    LET value == Get(toStateObject(s), "value")
    IN IF value \notin DOMAIN c.states
       THEN Throw(Error(<<"Machine '", c.id, "' does not have a state named '",
                          value, "'">>), <<>>, context)
       ELSE transitionFrom(c, context, value, event)

\* an initial state whose value is the name of the config key, not the
\* state it names
initialStateKey(c) ==
    [actions |-> mapToActionObject(toArray(
                    IF "entry" \in DOMAIN c.states[c.initial]
                    THEN c.states[c.initial].entry ELSE Undefined)),
     context |-> contextOf(c),
     value |-> "initial"]

\* machine.initialState of createMachine(c)
initialState(c) ==
    [actions |-> mapToActionObject(toArray(
                    IF "entry" \in DOMAIN c.states[c.initial]
                    THEN c.states[c.initial].entry ELSE Undefined)),
     context |-> contextOf(c),
     value |-> c.initial]

\* whether createMachine(c) returns: reading states[initial].entry throws
\* when states has no such state
createMachineReturns(c) == c.initial \in DOMAIN c.states

-----------------------------------------------------------------------------
(* The program: createMachine, interpret and the calls made on them *)

Listeners == {"listener1", "listener2"}

NoCall == [op |-> "none"]

NoProbe == [set |-> FALSE]

\* what user code does in a callback (the exec of an action, or a listener)
\* during one call of send: nothing, or the callback `who` calls
\* service.send(event) when it is invoked, or it throws, or it calls
\* service.send(event) at first and throws when it is invoked afterwards
NoScript == [who |-> "nobody"]

\* the functions of a configuration's actions
ExecsOf(c) ==
    CASE c.id = "light-bulb" ->
            {"litExitAction", "litToBrokenAction", "brokenEntryAction"}
      [] c.id = "logger" -> {"log1", "log2"}
      [] c.id = "multi-choice" -> {"exitA", "toB", "toC", "entryB", "entryC"}
      [] c.id = "entry-counter" -> {"entryIdle"}
      [] c.id = "assigner" -> {"exitA", "entryA", "swapped", "toB", "entryB"}
      [] OTHER -> {}

\* the scripts of a service of configuration c with the listeners ls
Scripts(c, ls) ==
    {NoScript}
      \cup {[who |-> w, event |-> e] :
                w \in ExecsOf(c) \cup Range(ls), e \in EventsOf(c)}

\* the scripts with a callback that throws
FailingScripts(c, ls) ==
    {NoScript}
      \cup {[who |-> w, throws |-> TRUE] : w \in ExecsOf(c) \cup Range(ls)}
      \cup {[who |-> w, event |-> e, throws |-> TRUE] :
                w \in ExecsOf(c) \cup Range(ls), e \in EventsOf(c)}

\* the callbacks a call of send invokes itself: the execs of the actions
\* its transition returns and the listeners
Invoked(out, ls) ==
    IF out.threw THEN {}
    ELSE {a.exec : a \in {b \in Range(out.result.actions) : "exec" \in DOMAIN b}}
            \cup Range(ls)

NoError == [name |-> "none"]

\* the error a callback throws: user code, `throw new Error(...)`
CallbackError(name) == Error(<<"thrown by ", name>>)

\* the entries of the trace of a call of send: a callback calling
\* service.send, the body of send being entered, the assignment to `state`,
\* an error leaving the call, the return, a callback throwing, the call of an
\* exec and the call of a listener; depth counts the calls of send that are
\* running
CallEntry(depth, event) == [kind |-> "call", depth |-> depth, event |-> event]

SendEntry(depth, event) == [kind |-> "send", depth |-> depth, event |-> event]

StoreEntry(depth, next) == [kind |-> "store", depth |-> depth, state |-> next]

ThrowEntry(depth, error) == [kind |-> "throw", depth |-> depth, error |-> error]

ReturnEntry(depth) == [kind |-> "return", depth |-> depth]

RaiseEntry(depth, name) ==
    [kind |-> "raise", depth |-> depth, by |-> name,
     error |-> CallbackError(name)]

ExecEntry(depth, exec, current, event) ==
    [kind |-> "exec", depth |-> depth, exec |-> exec,
     context |-> current.context, event |-> toEventObject(event),
     current |-> current]

NotifyEntry(depth, listener, current) ==
    [kind |-> "notify", depth |-> depth, listener |-> listener,
     state |-> current]

RECURSIVE send(_, _, _, _)
RECURSIVE forEachExec(_, _, _, _, _, _)
RECURSIVE forEachListenerFrom(_, _, _, _)

\* a service whose send, called while a send is running, only notes the
\* event for later
callbackDeferred(env, sv, name, depth) ==
    IF env.script.who # name THEN sv
    ELSE IF "event" \in DOMAIN env.script /\ sv.fuel > 0
    THEN [sv EXCEPT !.fuel = @ - 1,
                    !.trace = Append(@, CallEntry(depth + 1, env.script.event))]
    ELSE IF "throws" \in DOMAIN env.script
    THEN [sv EXCEPT !.threw = TRUE, !.error = CallbackError(name),
                    !.trace = Append(@, RaiseEntry(depth, name))]
    ELSE sv

\* the body of a callback: user code, which here calls service.send at most
\* sv.fuel times during one outer call of send, or throws
callback(env, sv, name, depth) ==
    IF env.script.who # name THEN sv
    ELSE IF "event" \in DOMAIN env.script /\ sv.fuel > 0
    THEN send(env,
              [sv EXCEPT !.fuel = @ - 1,
                         !.trace = Append(@, CallEntry(depth + 1, env.script.event))],
              env.script.event, depth + 1)
    ELSE IF "throws" \in DOMAIN env.script
    THEN [sv EXCEPT !.threw = TRUE, !.error = CallbackError(name),
                    !.trace = Append(@, RaiseEntry(depth, name))]
    ELSE sv

\* a loop over the actions that calls every exec with the context the
\* machine was configured with instead of state.context
forEachExecUnfolded(env, sv, actions, i, event, depth) ==
    IF i > Len(actions) THEN sv
    ELSE IF "exec" \notin DOMAIN actions[i]
    THEN forEachExec(env, sv, actions, i + 1, event, depth)
    ELSE LET called ==
                [sv EXCEPT !.trace =
                    Append(@, ExecEntry(depth, actions[i].exec,
                                        [sv.state EXCEPT !.context = sv.context],
                                        event))]
             after == callback(env, called, actions[i].exec, depth)
         IN IF after.threw THEN after
            ELSE forEachExec(env, after, actions, i + 1, event, depth)

\* a loop over the actions that catches what an exec throws and goes on
\* with the next action
forEachExecCatches(env, sv, actions, i, event, depth) ==
    IF i > Len(actions) THEN sv
    ELSE IF "exec" \notin DOMAIN actions[i]
    THEN forEachExec(env, sv, actions, i + 1, event, depth)
    ELSE LET called ==
                [sv EXCEPT !.trace = Append(@, ExecEntry(depth, actions[i].exec,
                                                         sv.state, event))]
             after == callback(env, called, actions[i].exec, depth)
         IN forEachExec(env, [after EXCEPT !.threw = FALSE, !.error = NoError],
                        actions, i + 1, event, depth)

\* state.actions.forEach(({ exec }) => { exec && exec(state.context, ...) })
\* from index i: the array is the one `state` held when the loop began, and
\* every call of exec reads `state` anew
forEachExec(env, sv, actions, i, event, depth) ==
    IF i > Len(actions) THEN sv
    ELSE IF "exec" \notin DOMAIN actions[i]
    THEN forEachExec(env, sv, actions, i + 1, event, depth)
    ELSE LET called ==
                [sv EXCEPT !.trace = Append(@, ExecEntry(depth, actions[i].exec,
                                                         sv.state, event))]
             after == callback(env, called, actions[i].exec, depth)
         IN IF after.threw THEN after
            ELSE forEachExec(env, after, actions, i + 1, event, depth)

\* a loop that stops after the first listener
forEachListenerFirstOnly(env, sv, i, depth) ==
    IF i > Len(env.listeners) THEN sv
    ELSE callback(env,
                  [sv EXCEPT !.trace = Append(@, NotifyEntry(depth, env.listeners[i],
                                                             sv.state))],
                  env.listeners[i], depth)

\* listeners.forEach(listener => listener(state)) from index i; every call
\* of a listener reads `state` anew
forEachListenerFrom(env, sv, i, depth) ==
    IF i > Len(env.listeners) THEN sv
    ELSE LET called ==
                [sv EXCEPT !.trace = Append(@, NotifyEntry(depth, env.listeners[i],
                                                           sv.state))]
             after == callback(env, called, env.listeners[i], depth)
         IN IF after.threw THEN after
            ELSE forEachListenerFrom(env, after, i + 1, depth)

\* a send that calls the listeners before it runs the actions
sendNotifiesFirst(env, sv, event, depth) ==
    LET entered == [sv EXCEPT !.trace = Append(@, SendEntry(depth, event))]
        out == transition(env.c, sv.context, Obj(sv.state), event)
    IN IF out.threw
       THEN [entered EXCEPT !.threw = TRUE, !.error = out.error,
                            !.context = out.context,
                            !.trace = Append(@, ThrowEntry(depth, out.error))]
       ELSE LET stored ==
                   [entered EXCEPT !.state = out.result,
                                   !.context = out.context,
                                   !.ran = @ \o out.ran,
                                   !.trace = Append(@, StoreEntry(depth, out.result))]
                told == forEachListenerFrom(env, stored, 1, depth)
                acted == IF told.threw THEN told
                         ELSE forEachExec(env, told, out.result.actions, 1,
                                          event, depth)
            IN IF acted.threw
               THEN [acted EXCEPT !.trace = Append(@, ThrowEntry(depth, acted.error))]
               ELSE [acted EXCEPT !.trace = Append(@, ReturnEntry(depth))]

\* a send that catches what machine.transition throws and returns
sendSwallows(env, sv, event, depth) ==
    LET entered == [sv EXCEPT !.trace = Append(@, SendEntry(depth, event))]
        out == transition(env.c, sv.context, Obj(sv.state), event)
    IN IF out.threw
       THEN [entered EXCEPT !.context = out.context,
                            !.trace = Append(@, ReturnEntry(depth))]
       ELSE LET stored ==
                   [entered EXCEPT !.state = out.result,
                                   !.context = out.context,
                                   !.ran = @ \o out.ran,
                                   !.trace = Append(@, StoreEntry(depth, out.result))]
                acted == forEachExec(env, stored, out.result.actions, 1,
                                     event, depth)
                told == IF acted.threw THEN acted
                        ELSE forEachListenerFrom(env, acted, 1, depth)
            IN IF told.threw
               THEN [told EXCEPT !.trace = Append(@, ThrowEntry(depth, told.error))]
               ELSE [told EXCEPT !.trace = Append(@, ReturnEntry(depth))]

\* a send that puts the state it began with back when a callback throws
sendRollsBack(env, sv, event, depth) ==
    LET entered == [sv EXCEPT !.trace = Append(@, SendEntry(depth, event))]
        out == transition(env.c, sv.context, Obj(sv.state), event)
    IN IF out.threw
       THEN [entered EXCEPT !.threw = TRUE, !.error = out.error,
                            !.context = out.context,
                            !.trace = Append(@, ThrowEntry(depth, out.error))]
       ELSE LET stored ==
                   [entered EXCEPT !.state = out.result,
                                   !.context = out.context,
                                   !.ran = @ \o out.ran,
                                   !.trace = Append(@, StoreEntry(depth, out.result))]
                acted == forEachExec(env, stored, out.result.actions, 1,
                                     event, depth)
                told == IF acted.threw THEN acted
                        ELSE forEachListenerFrom(env, acted, 1, depth)
            IN IF told.threw
               THEN [told EXCEPT !.state = sv.state,
                                 !.trace = Append(@, ThrowEntry(depth, told.error))]
               ELSE [told EXCEPT !.trace = Append(@, ReturnEntry(depth))]

\* the body of send on a started service: sv holds `state`, the content of
\* config.context, and the trace so far
send(env, sv, event, depth) ==
    LET entered == [sv EXCEPT !.trace = Append(@, SendEntry(depth, event))]
        out == transition(env.c, sv.context, Obj(sv.state), event)
    IN IF out.threw
       THEN [entered EXCEPT !.threw = TRUE, !.error = out.error,
                            !.context = out.context,
                            !.trace = Append(@, ThrowEntry(depth, out.error))]
       ELSE LET stored ==
                   [entered EXCEPT !.state = out.result,
                                   !.context = out.context,
                                   !.ran = @ \o out.ran,
                                   !.trace = Append(@, StoreEntry(depth, out.result))]
                acted == forEachExec(env, stored, out.result.actions, 1,
                                     event, depth)
                told == IF acted.threw THEN acted
                        ELSE forEachListenerFrom(env, acted, 1, depth)
            IN IF told.threw
               THEN [told EXCEPT !.trace = Append(@, ThrowEntry(depth, told.error))]
               ELSE [told EXCEPT !.trace = Append(@, ReturnEntry(depth))]

\* the entries of a trace of one kind
EntriesOf(trace, kind) == SelectSeq(trace, LAMBDA e : e.kind = kind)

\* the calls of execs in a trace, each with its two arguments
ExecLogOf(trace) ==
    LET execs == EntriesOf(trace, "exec")
    IN [i \in 1..Len(execs) |->
          [exec |-> execs[i].exec, context |-> execs[i].context,
           event |-> execs[i].event]]

\* the calls of listeners in a trace, each with its argument
NotifiedOf(trace) ==
    LET calls == EntriesOf(trace, "notify")
    IN [i \in 1..Len(calls) |->
          [listener |-> calls[i].listener, state |-> calls[i].state]]

\* listeners.forEach(listener => listener(state))
forEachListener(ls, current) ==
    [i \in 1..Len(ls) |-> [listener |-> ls[i], state |-> current]]

\* Enumerating all of the possible states of our bulb
BULB_STATES == [lit |-> "lit", unlit |-> "unlit", broken |-> "broken"]

\* betterBulb(): the closure of the object it returns
betterBulb == [state |-> BULB_STATES.unlit]

Init ==
    /\ config \in Configs
    /\ made = "no"
    /\ configContext = contextOf(config)
    /\ service = FALSE
    /\ state = Undefined
    /\ isStarted = FALSE
    /\ listeners = <<>>
    /\ last = NoCall
    /\ execLog = <<>>
    /\ notified = <<>>
    /\ sends = 0
    /\ probe = NoProbe
    /\ handles = {}
    /\ bulb = betterBulb
    /\ bulbCalls = <<>>

\* createMachine(config)
CreateMachine ==
    /\ made = "no"
    /\ made' = IF createMachineReturns(config) THEN "ok" ELSE "threw"
    /\ last' = IF createMachineReturns(config)
               THEN [op |-> "createMachine", threw |-> FALSE]
               ELSE [op |-> "createMachine", threw |-> TRUE,
                     error |-> TypeError("entry")]
    /\ execLog' = <<>>
    /\ notified' = <<>>
    /\ UNCHANGED <<bulb, bulbCalls, config, configContext, service, state, isStarted,
                   listeners, sends, probe, handles>>

\* interpret(machine)
Interpret ==
    /\ made = "ok"
    /\ ~service
    /\ service' = TRUE
    /\ state' = initialState(config)
    /\ isStarted' = FALSE
    /\ listeners' = <<>>
    /\ last' = [op |-> "interpret"]
    /\ execLog' = <<>>
    /\ notified' = <<>>
    /\ handles' = {}
    /\ UNCHANGED <<bulb, bulbCalls, config, made, configContext, sends, probe>>

\* machine.transition(s, event), called by the program itself; with keep the
\* program holds on to the call and its outcome
CallTransition(s, event, keep) ==
    /\ made = "ok"
    /\ \E out \in {transition(config, configContext, s, event)} :
          LET call == [op |-> "transition", s |-> s, event |-> event,
                       out |-> out, kept |-> keep]
          IN /\ last' = call
             /\ execLog' = out.ran
             /\ configContext' = out.context
             /\ probe' = IF keep THEN [set |-> TRUE, call |-> call] ELSE probe
    /\ notified' = <<>>
    /\ UNCHANGED <<bulb, bulbCalls, config, made, service, state, isStarted, listeners, sends,
                   handles>>

\* a check that never makes send return early
sendNeverReturnsEarly(started) == FALSE

\* if (!isStarted) { return }
sendReturnsEarly(started) == ~started

\* service.send(event), with what the callbacks do while it runs
Send(event, script) ==
    /\ service
    /\ IF sendReturnsEarly(isStarted)
       THEN /\ script = NoScript
            /\ last' = [op |-> "send", started |-> FALSE, event |-> event]
            /\ execLog' = <<>>
            /\ notified' = <<>>
            /\ UNCHANGED <<state, configContext, sends>>
       ELSE /\ sends < MaxSends
            /\ \E out \in {transition(config, configContext, Obj(state), event)},
                  run \in {send([c |-> config, listeners |-> listeners,
                                 script |-> script],
                                [state |-> state, context |-> configContext,
                                 fuel |-> MaxReentry, trace |-> <<>>,
                                 ran |-> <<>>, threw |-> FALSE,
                                 error |-> NoError],
                                event, 0)} :
                  /\ script # NoScript => script.who \in Invoked(out, listeners)
                  /\ last' = [op |-> "send", started |-> TRUE, s |-> Obj(state),
                              event |-> event, out |-> out,
                              trace |-> run.trace, threw |-> run.threw,
                              error |-> run.error]
                  /\ configContext' = run.context
                  /\ state' = run.state
                  /\ execLog' = run.ran \o ExecLogOf(run.trace)
                  /\ notified' = NotifiedOf(run.trace)
            /\ sends' = sends + 1
    /\ UNCHANGED <<bulb, bulbCalls, config, made, service, isStarted, listeners, probe,
                   handles>>

\* a start that does nothing on a service that is started
StartOnce ==
    /\ service
    /\ isStarted' = TRUE
    /\ notified' = IF isStarted THEN <<>> ELSE forEachListener(listeners, state)
    /\ last' = [op |-> "start", started |-> isStarted]
    /\ execLog' = <<>>
    /\ UNCHANGED <<bulb, bulbCalls, config, made, configContext, service, state, listeners,
                   sends, probe, handles>>

\* a start that executes the actions of the current state, as an interpreter
\* that runs the entry actions of the initial state would
StartRunsActions ==
    /\ service
    /\ isStarted' = TRUE
    /\ notified' = forEachListener(listeners, state)
    /\ last' = [op |-> "start", started |-> isStarted]
    /\ execLog' = LET execs == SelectSeq(state.actions,
                                         LAMBDA a : "exec" \in DOMAIN a)
                  IN [i \in 1..Len(execs) |->
                        [exec |-> execs[i].exec, context |-> state.context,
                         event |-> [type |-> "xstate.init"]]]
    /\ UNCHANGED <<bulb, bulbCalls, config, made, configContext, service, state, listeners,
                   sends, probe, handles>>

\* service.start(); the call is recorded with the status it found
Start ==
    /\ service
    /\ isStarted' = TRUE
    /\ notified' = forEachListener(listeners, state)
    /\ last' = [op |-> "start", started |-> isStarted]
    /\ execLog' = <<>>
    /\ UNCHANGED <<bulb, bulbCalls, config, made, configContext, service, state, listeners,
                   sends, probe, handles>>

\* a stop that keeps the listeners
StopKeepsListeners ==
    /\ service
    /\ isStarted' = FALSE
    /\ last' = [op |-> "stop", had |-> listeners]
    /\ execLog' = <<>>
    /\ notified' = <<>>
    /\ UNCHANGED <<bulb, bulbCalls, config, made, configContext, service, state, listeners,
                   sends, probe, handles>>

\* a stop that puts the service back into the initial state
StopResets ==
    /\ service
    /\ isStarted' = FALSE
    /\ listeners' = <<>>
    /\ state' = initialState(config)
    /\ last' = [op |-> "stop", had |-> listeners]
    /\ execLog' = <<>>
    /\ notified' = <<>>
    /\ UNCHANGED <<bulb, bulbCalls, config, made, configContext, service, sends, probe,
                   handles>>

\* service.stop(): listeners.forEach(listener => listeners.delete(listener))
\* deletes every listener; the call is recorded with the listeners it found
Stop ==
    /\ service
    /\ isStarted' = FALSE
    /\ listeners' = <<>>
    /\ last' = [op |-> "stop", had |-> listeners]
    /\ execLog' = <<>>
    /\ notified' = <<>>
    /\ UNCHANGED <<bulb, bulbCalls, config, made, configContext, service, state, sends, probe,
                   handles>>

\* a subscribe that keeps the listeners in an array
SubscribePushes(listener) ==
    /\ service
    /\ listeners' = Append(listeners, listener)
    /\ handles' = handles \cup {listener}
    /\ last' = [op |-> "subscribe", listener |-> listener, had |-> listeners]
    /\ execLog' = <<>>
    /\ notified' = <<>>
    /\ UNCHANGED <<bulb, bulbCalls, config, made, configContext, service, state, isStarted,
                   sends, probe>>

\* a subscribe that calls the new listener with the current state at once
SubscribeNotifies(listener) ==
    /\ service
    /\ listeners' = IF listener \in Range(listeners) THEN listeners
                    ELSE Append(listeners, listener)
    /\ handles' = handles \cup {listener}
    /\ last' = [op |-> "subscribe", listener |-> listener, had |-> listeners]
    /\ execLog' = <<>>
    /\ notified' = <<[listener |-> listener, state |-> state]>>
    /\ UNCHANGED <<bulb, bulbCalls, config, made, configContext, service, state, isStarted,
                   sends, probe>>

\* service.subscribe(listener): listeners.add(listener) on a Set, which keeps
\* a listener it holds already in its place; it returns a handle for the
\* listener, and the call is recorded with the listeners it found
Subscribe(listener) ==
    /\ service
    /\ listeners' = IF listener \in Range(listeners) THEN listeners
                    ELSE Append(listeners, listener)
    /\ handles' = handles \cup {listener}
    /\ last' = [op |-> "subscribe", listener |-> listener, had |-> listeners]
    /\ execLog' = <<>>
    /\ notified' = <<>>
    /\ UNCHANGED <<bulb, bulbCalls, config, made, configContext, service, state, isStarted,
                   sends, probe>>

\* an unsubscribe that empties the set
UnsubscribeAll(listener) ==
    /\ listener \in handles
    /\ listeners' = <<>>
    /\ last' = [op |-> "unsubscribe", listener |-> listener, had |-> listeners]
    /\ execLog' = <<>>
    /\ notified' = <<>>
    /\ UNCHANGED <<bulb, bulbCalls, config, made, configContext, service, state, isStarted,
                   sends, probe, handles>>

\* the unsubscribe() of a handle subscribe(listener) returned:
\* listeners.delete(listener); the call is recorded with the listeners it
\* found
Unsubscribe(listener) ==
    /\ listener \in handles
    /\ listeners' = SelectSeq(listeners, LAMBDA l : l # listener)
    /\ last' = [op |-> "unsubscribe", listener |-> listener, had |-> listeners]
    /\ execLog' = <<>>
    /\ notified' = <<>>
    /\ UNCHANGED <<bulb, bulbCalls, config, made, configContext, service, state, isStarted,
                   sends, probe, handles>>

\* service.currentState(): () => state; the call is recorded with what it
\* returned
CurrentState ==
    /\ service
    /\ last' = [op |-> "currentState", returned |-> state]
    /\ execLog' = <<>>
    /\ notified' = <<>>
    /\ UNCHANGED <<bulb, bulbCalls, config, made, configContext, service, state, isStarted,
                   listeners, sends, probe, handles>>

\* the state the user of a service asks machine.transition about: the
\* service's current state
ServiceInputs == IF service THEN {Obj(state)} ELSE {}

\* the states the user of a machine asks machine.transition about: a state
\* name, a descriptor built by hand, or the initial state
StateInputs ==
    {Str(n) : n \in StateNames(config)}
      \cup {Obj([value |-> n, context |-> c]) :
                n \in DOMAIN config.states, c \in ContextsOf(config)}
      \cup (IF made = "ok" THEN {Obj(initialState(config))} ELSE {})

Next ==
    \/ CreateMachine
    \/ Interpret
    \/ \E s \in ServiceInputs, event \in EventsOf(config) :
          CallTransition(s, event, FALSE)
    \/ \E event \in EventsOf(config) : Send(event, NoScript)
    \/ Start
    \/ Stop
    \/ \E listener \in Listeners : Subscribe(listener)
    \/ \E listener \in Listeners : Unsubscribe(listener)

Spec == Init /\ [][Next]_vars

\* the machine alone: the program only builds it and calls its transition
NextMachine ==
    \/ CreateMachine
    \/ \E s \in StateInputs, event \in EventsOf(config) :
          \E keep \in {FALSE, ~probe.set} : CallTransition(s, event, keep)

SpecMachine == Init /\ [][NextMachine]_vars

\* the configurations with assign actions
AssignConfigs == {Assigner, Counter, Logger}

InitAssign ==
    /\ config \in AssignConfigs
    /\ made = "no"
    /\ configContext = contextOf(config)
    /\ service = FALSE
    /\ state = Undefined
    /\ isStarted = FALSE
    /\ listeners = <<>>
    /\ last = NoCall
    /\ execLog = <<>>
    /\ notified = <<>>
    /\ sends = 0
    /\ probe = NoProbe
    /\ handles = {}
    /\ bulb = betterBulb
    /\ bulbCalls = <<>>

\* the machines with assign actions, alone
SpecAssign == InitAssign /\ [][NextMachine]_vars

\* a service of a machine with assign actions, whose callbacks do not call
\* the service
NextAssignService ==
    \/ CreateMachine
    \/ Interpret
    \/ Start
    \/ \E event \in EventsOf(config) : Send(event, NoScript)

SpecAssignService == InitAssign /\ [][NextAssignService]_vars

\* the configurations whose services run callbacks that send
ServiceConfigs == {LightBulb, Logger}

InitService == Init /\ config \in ServiceConfigs

\* the service with callbacks that call send while a send is running
NextService ==
    \/ CreateMachine
    \/ Interpret
    \/ \E event \in EventsOf(config), script \in Scripts(config, listeners) :
          Send(event, script)
    \/ Start
    \/ Stop
    \/ \E listener \in Listeners : Subscribe(listener)
    \/ \E listener \in Listeners : Unsubscribe(listener)

SpecService == InitService /\ [][NextService]_vars

\* the service with callbacks that throw
NextFailing ==
    \/ CreateMachine
    \/ Interpret
    \/ \E event \in EventsOf(config),
          script \in FailingScripts(config, listeners) :
          Send(event, script)
    \/ Start
    \/ \E listener \in Listeners : Subscribe(listener)

SpecFailing == InitService /\ [][NextFailing]_vars

\* the configurations whose services are followed through their whole life:
\* the light bulb, a counter with entry actions on its initial state, and a
\* machine with a transition whose target is no state
LifecycleConfigs ==
    {LightBulb, EntryCounter, MultiChoice("() => false", "() => true")}

InitLifecycle == Init /\ config \in LifecycleConfigs

\* every call a program can make on a service, its callbacks doing nothing
NextLifecycle ==
    \/ CreateMachine
    \/ Interpret
    \/ \E event \in EventsOf(config) : Send(event, NoScript)
    \/ Start
    \/ Stop
    \/ \E listener \in Listeners : Subscribe(listener)
    \/ \E listener \in Listeners : Unsubscribe(listener)
    \/ CurrentState

SpecLifecycle == InitLifecycle /\ [][NextLifecycle]_vars

\* bulb.value()
bulbValue ==
    /\ Len(bulbCalls) < MaxCalls
    /\ bulbCalls' = Append(bulbCalls, [method |-> "value", returned |-> bulb.state])
    /\ UNCHANGED <<bulb, config, made, configContext, service, state,
                   isStarted, listeners, last, execLog, notified, sends,
                   probe, handles>>

\* a toggle that switches a broken bulb on
bulbToggleRepairs ==
    /\ Len(bulbCalls) < MaxCalls
    /\ bulb' = [bulb EXCEPT !.state =
                  IF @ = BULB_STATES.lit THEN BULB_STATES.unlit
                  ELSE BULB_STATES.lit]
    /\ bulbCalls' = Append(bulbCalls, [method |-> "toggle"])
    /\ UNCHANGED <<config, made, configContext, service, state, isStarted,
                   listeners, last, execLog, notified, sends, probe, handles>>

\* bulb.toggle()
bulbToggle ==
    /\ Len(bulbCalls) < MaxCalls
    /\ bulb' = [bulb EXCEPT !.state =
                  CASE @ = BULB_STATES.broken -> @
                    [] @ = BULB_STATES.lit -> BULB_STATES.unlit
                    [] @ = BULB_STATES.unlit -> BULB_STATES.lit
                    [] OTHER -> @]
    /\ bulbCalls' = Append(bulbCalls, [method |-> "toggle"])
    /\ UNCHANGED <<config, made, configContext, service, state, isStarted,
                   listeners, last, execLog, notified, sends, probe, handles>>

\* bulb.break()
bulbBreak ==
    /\ Len(bulbCalls) < MaxCalls
    /\ bulb' = [bulb EXCEPT !.state = BULB_STATES.broken]
    /\ bulbCalls' = Append(bulbCalls, [method |-> "break"])
    /\ UNCHANGED <<config, made, configContext, service, state, isStarted,
                   listeners, last, execLog, notified, sends, probe, handles>>

\* the program of section 1 builds no machine; the light-bulb configuration
\* stands in the variables of the library, which it never touches
InitBulb == Init /\ config = LightBulb

NextBulb == bulbValue \/ bulbToggle \/ bulbBreak

\* the hand-written bulb and every sequence of calls on it
SpecBulb == InitBulb /\ [][NextBulb]_vars

-----------------------------------------------------------------------------
(* What the properties read off the last call *)

\* the last call ran machine.transition: a direct call, or a send to a
\* started service
IsCall == last.op = "transition" \/ (last.op = "send" /\ last.started)

\* the state object, the state value and the event object of that call
lastState == toStateObject(last.s)

lastValue == Get(lastState, "value")

lastEvent == toEventObject(last.event)

\* the call was given a state descriptor that carries a context
HasContext == last.s.typeof = "object" /\ "context" \in DOMAIN lastState

\* the raw `on` entry of the call's state for the call's event type
lastEntry ==
    LET stateConfig == config.states[lastValue]
        type == Get(lastEvent, "type")
    IN IF "on" \in DOMAIN stateConfig /\ type \in DOMAIN stateConfig.on
       THEN stateConfig.on[type] ELSE Undefined

\* the call's state is a state of the machine and has no entry for the event
Unhandled == lastValue \in DOMAIN config.states /\ lastEntry = Undefined

\* the candidate transitions of the call, in declaration order
lastCandidates ==
    IF lastValue \in DOMAIN config.states THEN toArray(lastEntry) ELSE <<>>

\* the guard of candidate i, its target and its actions
CondOf(i) == Get(toTransitionObject(lastCandidates[i]), "cond")

TargetOf(i) ==
    LET tr == toTransitionObject(lastCandidates[i])
    IN IF "target" \in DOMAIN tr THEN tr.target ELSE lastValue

ActionsOf(i) ==
    LET tr == toTransitionObject(lastCandidates[i])
    IN IF "actions" \in DOMAIN tr THEN tr.actions ELSE Undefined

\* what the j-th guard evaluation of the call returned
CondValue(j) ==
    Call(last.out.conds[j].cond, last.out.conds[j].context,
         last.out.conds[j].event)

\* the call took a transition: its last guard evaluation was satisfied
Taken ==
    /\ IsCall
    /\ Len(last.out.conds) > 0
    /\ CondValue(Len(last.out.conds))

\* the candidate the call took
TakenIndex == Len(last.out.conds)

-----------------------------------------------------------------------------
(* Properties *)

\* C1: a call of transition for an event the state has no `on` entry for
\* (or for a state without `on` table) returns the value and the context of
\* the state descriptor it was given, changed = false and no actions; so an
\* unhandled send leaves the service's value and context as they were.
C1_NoOpLeavesState ==
    (IsCall /\ HasContext /\ Unhandled) =>
        /\ ~last.out.threw
        /\ last.out.result.value = lastState.value
        /\ last.out.result.context = lastState.context
        /\ last.out.result.changed = FALSE
        /\ last.out.result.actions = <<>>

\* C2: the assign actions of a transition are folded starting from the
\* context of the state descriptor given to transition, so every increment
\* adds one to the count of that descriptor, and a service of the counter
\* machine that has processed n sends, each an increment, has count = n.
C2_ContextAccumulates ==
    /\ (config = Counter /\ IsCall /\ HasContext) =>
            last.out.result.context.count = lastState.context.count + 1
    /\ (config = Counter /\ service) => state.context.count = sends

\* C3: every guard is called with the context of the state descriptor given
\* to transition and with the normalized event, and in the vending machine
\* VEND leads from idle to vending exactly when that context holds at least
\* 100 deposited.
C3_GuardSeesCurrentContext ==
    (IsCall /\ HasContext) =>
        /\ \A j \in 1..Len(last.out.conds) :
              /\ last.out.conds[j].context = lastState.context
              /\ last.out.conds[j].event = lastEvent
        /\ (config = VendingMachine /\ lastValue = "idle"
                /\ Get(lastEvent, "type") = "VEND") =>
              /\ ~last.out.threw
              /\ (last.out.result.value = "vending")
                    <=> (lastState.context.deposited >= 100)
              /\ (last.out.result.value = "idle")
                    <=> (lastState.context.deposited < 100)
              /\ (last.out.result.value = "idle") => ~last.out.result.changed

\* the outcome of the last call had the `on` entry of its event held
\* candidate i alone
Alone(i) ==
    LET type == Get(lastEvent, "type")
        single == [config EXCEPT !.states[lastValue].on[type] = lastCandidates[i]]
    IN transition(single, last.out.context, last.s, last.event)

\* C4: the candidates of an event are examined in declaration order, a
\* candidate without cond counting as satisfied; the call takes the first
\* candidate whose guard is satisfied, evaluates no guard after it, and
\* returns (or throws) what it would with that candidate alone; it takes none
\* only when every guard it reached was false, having reached the end of the
\* list or a falsy entry.
C4_FirstSatisfiedGuardWins ==
    (IsCall /\ lastValue \in DOMAIN config.states) =>
        LET n == Len(last.out.conds)
        IN /\ n <= Len(lastCandidates)
           /\ \A j \in 1..n :
                 /\ ~Falsy(lastCandidates[j])
                 /\ last.out.conds[j].index = j
                 /\ last.out.conds[j].cond =
                       (IF CondOf(j) = "undefined" THEN "() => true" ELSE CondOf(j))
           /\ \A j \in 1..(n - 1) : ~CondValue(j)
           /\ IF n > 0 /\ CondValue(n)
              THEN /\ last.out.threw = Alone(n).threw
                   /\ ~last.out.threw =>
                         /\ last.out.result = Alone(n).result
                         /\ last.out.result.value = TargetOf(n)
              ELSE /\ n = Len(lastCandidates) \/ Falsy(lastCandidates[n + 1])
                   /\ ~last.out.threw
                   /\ last.out.result.value = lastValue
                   /\ ~last.out.result.changed

\* C4 happens: the first guard was false, the second candidate was taken and
\* a third candidate, whose guard is satisfied too, was not examined
C4_Witness ==
    /\ Taken
    /\ ~last.out.threw
    /\ TakenIndex = 2
    /\ Len(lastCandidates) = 3
    /\ Call(CondOf(3), last.out.context, lastEvent)
    /\ last.out.result.value = "C"

\* toArray(x).map(toActionObject) for an optional list of actions
Norm(x) == mapToActionObject(toArray(x))

\* the exit and the entry actions a state declares
ExitOf(v) ==
    IF "exit" \in DOMAIN config.states[v] THEN config.states[v].exit ELSE Undefined

EntryOf(v) ==
    IF "entry" \in DOMAIN config.states[v] THEN config.states[v].entry ELSE Undefined

\* the actions of a list that are no assign actions, and those with an exec
NonAssign(actions) ==
    SelectSeq(actions, LAMBDA a : Get(a, "type") # ASSIGN_ACTION_TYPE)

WithExec(actions) == SelectSeq(actions, LAMBDA a : "exec" \in DOMAIN a)

\* C5: a taken transition from A to B returns A's exit actions, then the
\* transition's own actions, then B's entry actions, each group in
\* declaration order and without the assign actions; a send invokes the
\* execs of that list in that order.
C5_ActionOrder ==
    (Taken /\ ~last.out.threw) =>
        /\ last.out.result.actions =
              NonAssign(Norm(ExitOf(lastValue))
                          \o Norm(ActionsOf(TakenIndex))
                          \o Norm(EntryOf(TargetOf(TakenIndex))))
        /\ last.op = "send" =>
              /\ Len(execLog) = Len(WithExec(last.out.result.actions))
              /\ \A i \in 1..Len(execLog) :
                    execLog[i].exec = WithExec(last.out.result.actions)[i].exec

\* C5 happens: a send took a transition with an exit, a transition and an
\* entry action, and ran the three
C5_Witness ==
    /\ Taken
    /\ last.op = "send"
    /\ ~last.out.threw
    /\ Norm(ExitOf(lastValue)) # <<>>
    /\ Norm(ActionsOf(TakenIndex)) # <<>>
    /\ Norm(EntryOf(last.out.result.value)) # <<>>
    /\ Len(execLog) = 3

\* C6: a call of transition invokes no exec, whatever actions it returns;
\* execs are invoked only by a send to a started service.
C6_TransitionRunsNoAction ==
    /\ IsCall => last.out.ran = <<>>
    /\ last.op = "transition" => execLog = <<>>
    /\ execLog # <<>> => (last.op = "send" /\ last.started)

\* C6 happens: a direct call of transition returned an action with an exec
C6_Witness ==
    /\ last.op = "transition"
    /\ ~last.out.threw
    /\ WithExec(last.out.result.actions) # <<>>

\* C7: a call of transition with the state and the event of an earlier call
\* returns the same descriptor, or throws the same error, whatever calls were
\* made in between.
C7_TransitionDeterministic ==
    (/\ probe.set
     /\ last.op = "transition"
     /\ last.s = probe.call.s
     /\ last.event = probe.call.event) =>
        /\ last.out.threw = probe.call.out.threw
        /\ IF last.out.threw
           THEN last.out.error = probe.call.out.error
           ELSE last.out.result = probe.call.out.result

\* C7 happens: a later call repeats a kept call that folded an assign
C7_Witness ==
    /\ probe.set
    /\ last.op = "transition"
    /\ ~last.kept
    /\ last.s = probe.call.s
    /\ last.event = probe.call.event
    /\ ~last.out.threw
    /\ last.out.result.context # contextOf(config)

\* C8: a call of transition with a state that is no state of the machine
\* throws an error whose message names the machine id and that state, for
\* every event, and returns no descriptor.
C8_UnknownStateThrows ==
    (IsCall /\ lastValue \notin DOMAIN config.states) =>
        /\ last.out.threw
        /\ "result" \notin DOMAIN last.out
        /\ last.out.error.name = "Error"
        /\ config.id \in Range(last.out.error.message)
        /\ lastValue \in Range(last.out.error.message)

\* C8 happens: transition was called with the state invalidState
C8_Witness ==
    /\ last.op = "transition"
    /\ lastValue = "invalidState"
    /\ last.out.threw

\* C9: when the transition taken names a target that is no state of the
\* machine, the call of transition (not createMachine) fails with an error
\* that carries the machine id.
C9_UnknownTargetNamesMachine ==
    (Taken /\ TargetOf(TakenIndex) \notin DOMAIN config.states) =>
        /\ made = "ok"
        /\ last.out.threw
        /\ config.id \in Range(last.out.error.message)

\* C10: createMachine succeeds for a configuration whose initial state is no
\* state of the machine; the error comes with the first call of transition
\* for that state.
C10_LazyInitialValidation ==
    (config.initial \notin DOMAIN config.states) =>
        /\ made # "threw"
        /\ (IsCall /\ lastValue = config.initial) => last.out.threw

\* the exit, transition and entry actions of the transition the call took,
\* normalized, before the assign actions are taken out
TakenActions ==
    Norm(ExitOf(lastValue)) \o Norm(ActionsOf(TakenIndex))
        \o Norm(EntryOf(TargetOf(TakenIndex)))

\* C11: for every taken transition the returned changed is true exactly
\* when the target differs from the value of the state given, or the
\* returned list of actions is not empty, or the transition had an assign
\* action among its exit, transition and entry actions; a taken transition
\* that stays in its state with no action at all returns changed = false.
C11_ChangedFlag ==
    (Taken /\ ~last.out.threw) =>
        /\ last.out.result.changed <=>
              \/ TargetOf(TakenIndex) # lastValue
              \/ last.out.result.actions # <<>>
              \/ NonAssign(TakenActions) # TakenActions
        /\ (TargetOf(TakenIndex) = lastValue /\ TakenActions = <<>>) =>
              last.out.result.changed = FALSE
        /\ (TargetOf(TakenIndex) = lastValue
                /\ last.out.result.actions # <<>>) =>
              last.out.result.changed = TRUE

\* C11 happens: the call took the empty transition, which names no target
\* and has no action, from a state without exit and entry actions
C11_Witness ==
    /\ Taken
    /\ ~last.out.threw
    /\ lastCandidates[TakenIndex] = Obj(<< >>)
    /\ TakenActions = <<>>
    /\ last.out.result.value = lastValue
    /\ last.out.result.changed = FALSE

\* C12: no state descriptor the machine produces, initialState or the result
\* of a call of transition, has an action of the reserved assign type in its
\* list of actions, whatever assign actions the exit, transition and entry
\* lists of the configuration hold.
C12_AssignNeverSurfaces ==
    /\ made = "ok" =>
          NonAssign(initialState(config).actions) = initialState(config).actions
    /\ (IsCall /\ ~last.out.threw) =>
          NonAssign(last.out.result.actions) = last.out.result.actions

\* C13: a service is stopped after interpret and after stop(); a send to a
\* stopped service changes neither the current state nor the listeners nor
\* the status, invokes no exec and calls no listener, for every event; and a
\* later start() replays nothing: it leaves the current state as it is,
\* invokes no exec and hands that state to the listeners.
C13_SendWhileStoppedIsNoOp ==
    [][/\ last'.op \in {"interpret", "stop"} => ~isStarted'
       /\ (last'.op = "send" /\ ~isStarted) =>
             /\ state' = state
             /\ listeners' = listeners
             /\ isStarted' = isStarted
             /\ configContext' = configContext
             /\ execLog' = <<>>
             /\ notified' = <<>>
       /\ last'.op = "start" =>
             /\ state' = state
             /\ execLog' = <<>>
             /\ \A i \in 1..Len(notified') : notified'[i].state = state]_vars

\* C13 happens: an event the current state handles was sent to a service
\* that had processed sends, was stopped and then given a listener
C13_Witness ==
    /\ last.op = "send"
    /\ ~isStarted
    /\ sends > 0
    /\ listeners # <<>>
    /\ execLog = <<>>
    /\ notified = <<>>
    /\ LET out == transition(config, configContext, Obj(state), last.event)
       IN ~out.threw /\ out.result.changed

\* the calls of send the last call of send ran, itself included
SendsIn(trace) == Len(EntriesOf(trace, "send"))

\* C14: a send to a started service during which no callback calls send,
\* and whose transition returns, makes machine.transition(current state,
\* event) the current state and calls every subscribed listener exactly
\* once, in subscription order, with that new state; also when the result
\* has changed = false.
C14_SendStoresAndNotifies ==
    [][(last'.op = "send" /\ isStarted /\ SendsIn(last'.trace) = 1) =>
          LET out == transition(config, configContext, Obj(state), last'.event)
          IN ~out.threw =>
                /\ state' = out.result
                /\ notified' =
                      [i \in 1..Len(listeners) |->
                          [listener |-> listeners[i], state |-> out.result]]
                /\ listeners' = listeners]_vars

\* C14 happens: a send whose transition did not match was stored and told
\* to two listeners
C14_Witness ==
    /\ last.op = "send"
    /\ last.started
    /\ ~last.out.threw
    /\ last.out.result.changed = FALSE
    /\ state = last.out.result
    /\ Len(listeners) = 2
    /\ Len(notified) = 2

\* C15: start() leaves the service started and calls every subscribed
\* listener exactly once, in subscription order, with the current state,
\* which it does not change; it invokes no exec and keeps the listeners; all
\* this also when the service is started already.
C15_StartNotifies ==
    [][last'.op = "start" =>
          /\ isStarted'
          /\ state' = state
          /\ listeners' = listeners
          /\ execLog' = <<>>
          /\ notified' =
                [i \in 1..Len(listeners) |->
                    [listener |-> listeners[i], state |-> state]]]_vars

\* C15 happens: start() on a started service that had moved on from its
\* initial state called two listeners
C15_Witness ==
    /\ last.op = "start"
    /\ last.started
    /\ isStarted
    /\ state # initialState(config)
    /\ Len(notified) = 2

\* C16: stop() leaves no listener subscribed; a listener becomes subscribed
\* only by a call of subscribe with it; and a call notifies only listeners
\* that are subscribed when it is made. So a listener subscribed before a
\* stop() is not notified by any later start() or send() unless subscribe is
\* called with it again after the stop.
C16_StopEmptiesListeners ==
    [][/\ last'.op = "stop" => listeners' = <<>>
       /\ \A l \in Listeners :
             (l \notin Range(listeners) /\ l \in Range(listeners')) =>
                (last'.op = "subscribe" /\ last'.listener = l)
       /\ \A i \in 1..Len(notified') :
             notified'[i].listener \in Range(listeners)]_vars

\* C16 happens: stop() was called on a started service with two listeners
\* and left none
C16_Witness ==
    /\ last.op = "stop"
    /\ Len(last.had) = 2
    /\ sends > 0
    /\ listeners = <<>>
    /\ ~isStarted

\* the listeners a call called
NotifiedSet(calls) == {calls[i].listener : i \in 1..Len(calls)}

\* C17: the unsubscribe() of a handle of listener L takes L out of the set
\* and nothing else: every other listener stays subscribed, in its place,
\* and state and status are untouched; every start(), and every send() to a
\* started service that returns, calls exactly the subscribed listeners, so
\* L gets no further call and the others keep getting theirs.
C17_UnsubscribeRemovesItsListener ==
    [][/\ last'.op = "unsubscribe" =>
             /\ last'.listener \notin Range(listeners')
             /\ \A l \in Listeners \ {last'.listener} :
                   l \in Range(listeners') <=> l \in Range(listeners)
             /\ Len(listeners') = Cardinality(Range(listeners'))
             /\ \A i, j \in 1..Len(listeners') :
                   i < j =>
                     \E m, n \in 1..Len(listeners) :
                        /\ m < n
                        /\ listeners[m] = listeners'[i]
                        /\ listeners[n] = listeners'[j]
             /\ state' = state
             /\ isStarted' = isStarted
             /\ notified' = <<>>
       /\ (last'.op = "start"
             \/ (last'.op = "send" /\ isStarted /\ ~last'.threw)) =>
             NotifiedSet(notified') = Range(listeners)]_vars

\* C17 happens: of two subscribed listeners the first was unsubscribed and
\* the second stayed
C17_Witness ==
    /\ last.op = "unsubscribe"
    /\ Len(last.had) = 2
    /\ last.had[1] = last.listener
    /\ listeners = <<last.had[2]>>
    /\ isStarted

\* how many of the calls went to listener l
CallsTo(calls, l) == Cardinality({i \in 1..Len(calls) : calls[i].listener = l})

\* C18: subscribe with a listener that is subscribed already changes
\* nothing, so however often a listener is subscribed it is in the set once;
\* start(), and a send() to a started service that returns and during which
\* no callback calls send, call every subscribed listener exactly once.
C18_ListenersAreASet ==
    [][/\ last'.op = "subscribe" =>
             /\ last'.listener \in Range(listeners) => listeners' = listeners
             /\ last'.listener \notin Range(listeners) =>
                   listeners' = Append(listeners, last'.listener)
             /\ Len(listeners') = Cardinality(Range(listeners'))
       /\ (last'.op = "start"
             \/ (last'.op = "send" /\ isStarted /\ ~last'.threw
                   /\ SendsIn(last'.trace) = 1)) =>
             /\ Len(notified') = Cardinality(Range(listeners))
             /\ \A l \in Range(listeners) : CallsTo(notified', l) = 1]_vars

\* C18 happens: subscribe was called with a listener that was subscribed
\* already, next to another one
C18_Witness ==
    /\ last.op = "subscribe"
    /\ last.listener \in Range(last.had)
    /\ Len(last.had) = 2
    /\ listeners = last.had

\* the last call was a send to a started service
IsSend == last.op = "send" /\ last.started

\* the calls of send in a trace: the indexes of their first entries
Frames(t) == {p \in 1..Len(t) : t[p].kind = "send"}

\* where the call of send that begins at p ends: its return or throw entry
FrameEnd(t, p) ==
    CHOOSE q \in (p + 1)..Len(t) :
        /\ t[q].depth = t[p].depth
        /\ t[q].kind \in {"return", "throw"}
        /\ \A r \in (p + 1)..(q - 1) :
              ~(t[r].depth = t[p].depth /\ t[r].kind \in {"return", "throw"})

\* the entries the call of send at p made itself, not the calls of send
\* running inside it
Own(t, p) ==
    {i \in (p + 1)..(FrameEnd(t, p) - 1) : t[i].depth = t[p].depth}

\* the value of `state` just before entry i of the trace of a send that
\* began with `state` = s0
StateBefore(t, i, s0) ==
    LET stores == {j \in 1..(i - 1) : t[j].kind = "store"}
    IN IF stores = {} THEN s0
       ELSE t[CHOOSE j \in stores : \A k \in stores : k <= j].state

\* the own entries of one kind of the call of send at p, in order
OwnOf(t, p, kind) ==
    SelectSeq([i \in 1..Len(t) |-> IF i \in Own(t, p) THEN t[i] ELSE [kind |-> "other"]],
              LAMBDA e : e.kind = kind)

\* C19: every call of send on a started service first stores the result of
\* the transition from the state it finds, then calls the execs of the
\* actions of that result, in order, and only after the last of them calls
\* the listeners, in order; so none of its listener calls comes before one
\* of its exec calls, and when an exec is called `state` is already the
\* state stored last, for a send without re-entrant calls its own result.
C19_PhaseOrder ==
    IsSend =>
        LET t == last.trace
        IN /\ \A p \in Frames(t) :
                 t[p + 1].kind = "store" =>
                    /\ LET out == transition(config, configContext,
                                             Obj(StateBefore(t, p, lastState)),
                                             t[p].event)
                       IN ~out.threw /\ t[p + 1].state = out.result
                    /\ t[p + 1].depth = t[p].depth
                    /\ \A i, j \in Own(t, p) :
                          (t[i].kind = "exec" /\ t[j].kind = "notify") => i < j
                    /\ t[FrameEnd(t, p)].kind = "return" =>
                          /\ [i \in 1..Len(OwnOf(t, p, "exec")) |->
                                 OwnOf(t, p, "exec")[i].exec]
                                = [i \in 1..Len(WithExec(t[p + 1].state.actions)) |->
                                     WithExec(t[p + 1].state.actions)[i].exec]
                          /\ [i \in 1..Len(OwnOf(t, p, "notify")) |->
                                 OwnOf(t, p, "notify")[i].listener] = listeners
           /\ \A i \in 1..Len(t) :
                 t[i].kind = "exec" =>
                    /\ t[i].current = StateBefore(t, i, lastState)
                    /\ SendsIn(t) = 1 => t[i].current = last.out.result

\* C19 happens: a send ran three actions and then called two listeners
C19_Witness ==
    /\ IsSend
    /\ ~last.threw
    /\ SendsIn(last.trace) = 1
    /\ Len(EntriesOf(last.trace, "exec")) = 3
    /\ Len(EntriesOf(last.trace, "notify")) = 2
    /\ last.trace[3].kind = "exec"
    /\ last.trace[3].current = state

\* the names of the execs of a list of actions or of trace entries
ExecNames(items) == [i \in 1..Len(items) |-> items[i].exec]

\* C20: when a callback of a running send (an exec or a listener) calls
\* service.send(e2), that call is run at once and to its end: its body is
\* entered with e2 as the very next step; until it returns or throws the
\* outer send takes no step of its own; if it returns it has stored the
\* result of its transition, called the execs of that result and called
\* every listener; and the outer send goes on only after it. No call is
\* left over when the outermost send ends.
C20_ReentrantSendRunsAtOnce ==
    IsSend =>
        LET t == last.trace
        IN /\ \A i \in 1..Len(t) :
                 t[i].kind = "call" =>
                    /\ i > 1
                    /\ t[i - 1].kind \in {"exec", "notify"}
                    /\ t[i - 1].depth = t[i].depth - 1
                    /\ i < Len(t)
                    /\ t[i + 1] = SendEntry(t[i].depth, t[i].event)
                    /\ \E q \in (i + 2)..Len(t) :
                          /\ q = FrameEnd(t, i + 1)
                          /\ \A r \in (i + 1)..q : t[r].depth >= t[i].depth
                          /\ q < Len(t)
                          /\ t[q + 1].depth = t[i].depth - 1
                          /\ t[q].kind = "return" =>
                                /\ t[i + 2].kind = "store"
                                /\ ExecNames(OwnOf(t, i + 1, "exec"))
                                      = ExecNames(WithExec(t[i + 2].state.actions))
                                /\ [n \in 1..Len(OwnOf(t, i + 1, "notify")) |->
                                       OwnOf(t, i + 1, "notify")[n].listener]
                                      = listeners
           /\ Len(EntriesOf(t, "call")) = SendsIn(t) - 1
           /\ t[Len(t)].depth = 0
           /\ t[Len(t)].kind \in {"return", "throw"}

\* C20 happens: the first of three actions called send, and the inner send
\* stored its state and called two listeners before the second action ran
C20_Witness ==
    /\ IsSend
    /\ ~last.threw
    /\ Len(last.trace) > 8
    /\ last.trace[3].kind = "exec"
    /\ last.trace[4].kind = "call"
    /\ last.trace[5].kind = "send"
    /\ last.trace[6].kind = "store"
    /\ last.trace[7].kind = "notify"
    /\ last.trace[8].kind = "notify"
    /\ last.trace[9].kind = "return"
    /\ last.trace[10].kind = "exec"
    /\ last.trace[10].depth = 0

\* C21: when an exec or a listener throws during a send, nothing catches
\* the error: the send that called the callback makes no further exec or
\* listener call and throws the same error, and so does every send that was
\* running around it, down to the outermost one, whose caller gets the error.
C21_CallbackErrorPropagates ==
    IsSend =>
        LET t == last.trace
        IN \A i \in 1..Len(t) :
              t[i].kind = "raise" =>
                 /\ i > 1
                 /\ t[i - 1].kind \in {"exec", "notify"}
                 /\ t[i - 1].depth = t[i].depth
                 /\ Len(t) = i + t[i].depth + 1
                 /\ \A k \in 1..(t[i].depth + 1) :
                       t[i + k] = ThrowEntry(t[i].depth + 1 - k, t[i].error)
                 /\ last.threw
                 /\ last.error = t[i].error

\* C21 happens: the first of three execs threw while two listeners were
\* subscribed, and the send ended right there
C21_Witness ==
    /\ IsSend
    /\ last.threw
    /\ Len(WithExec(last.out.result.actions)) = 3
    /\ Len(listeners) = 2
    /\ Len(last.trace) = 5
    /\ last.trace[3].kind = "exec"
    /\ last.trace[4].kind = "raise"
    /\ state = last.out.result

\* the guard of candidate i of the call, cond(context, eventObject), with
\* the default of a candidate that declares none
GuardOf(i, context) ==
    Call(IF CondOf(i) = "undefined" THEN "() => true" ELSE CondOf(i),
         context, lastEvent)

\* the event of the call has candidates, none of them falsy, and no guard
\* is satisfied, neither on the machine's context nor on the context of the
\* state the call was given
NoGuardSatisfied ==
    /\ IsCall
    /\ lastValue \in DOMAIN config.states
    /\ Len(lastCandidates) > 0
    /\ \A i \in 1..Len(lastCandidates) :
          /\ ~Falsy(lastCandidates[i])
          /\ ~GuardOf(i, last.out.context)
          /\ HasContext => ~GuardOf(i, lastState.context)

\* C22: when the event has candidates and none of their guards is satisfied,
\* transition throws nothing and returns the value it was given with
\* changed = false and no actions; it has evaluated every guard, run no
\* action and folded no assign: the context it returns is a context as it
\* was before the call.
C22_NoGuardSatisfiedIsNoMatch ==
    NoGuardSatisfied =>
        /\ ~last.out.threw
        /\ last.out.result.value = lastValue
        /\ last.out.result.changed = FALSE
        /\ last.out.result.actions = <<>>
        /\ last.out.result.context = last.out.context
        /\ last.out.context = contextOf(config)
        /\ last.out.ran = <<>>
        /\ Len(last.out.conds) = Len(lastCandidates)

\* C22 happens: both candidates of GUARDED carry an assign action and
\* neither guard was satisfied
C22_Witness ==
    /\ NoGuardSatisfied
    /\ Len(lastCandidates) = 2
    /\ \A i \in 1..2 :
          \E a \in Range(Norm(ActionsOf(i))) : Get(a, "type") = ASSIGN_ACTION_TYPE
    /\ TargetOf(1) # lastValue
    /\ last.out.result.value = "A"

\* C23: in a service of the light-bulb machine the value never leaves
\* 'broken': once currentState().value is 'broken' it stays so, and every
\* send to the started service leaves a state with changed = false and no
\* actions. Before that a send of TOGGLE to the started service turns unlit
\* into lit and lit into unlit, a send of BREAK leads to broken, both with
\* changed = true, and any other event leaves the value with changed = false.
C23_BrokenIsAbsorbing ==
    [][(config.id = "light-bulb" /\ service) =>
          /\ state.value = "broken" =>
                /\ state'.value = "broken"
                /\ (last'.op = "send" /\ last'.started) =>
                      /\ ~last'.threw
                      /\ state'.changed = FALSE
                      /\ state'.actions = <<>>
          /\ (last'.op = "send" /\ last'.started /\ state.value # "broken") =>
                /\ ~last'.threw
                /\ state.value \in {"lit", "unlit"}
                /\ CASE last'.event = Str("TOGGLE") ->
                            /\ state'.value = (IF state.value = "lit"
                                               THEN "unlit" ELSE "lit")
                            /\ state'.changed = TRUE
                     [] last'.event = Str("BREAK") ->
                            /\ state'.value = "broken"
                            /\ state'.changed = TRUE
                     [] OTHER ->
                            /\ state'.value = state.value
                            /\ state'.changed = FALSE]_vars

\* C23 happens: TOGGLE was sent to a started service whose bulb was broken
\* already, and the bulb is still broken
C23_Witness ==
    /\ config.id = "light-bulb"
    /\ IsSend
    /\ lastValue = "broken"
    /\ last.event = Str("TOGGLE")
    /\ state.value = "broken"
    /\ state.changed = FALSE
    /\ sends > 2

\* what the context of the descriptor a kept call returned holds now: the
\* content of config.context when it is that object, and otherwise what the
\* call left in the object it created, which no later call can reach
KeptContextNow ==
    IF probe.call.out.ref = "config" THEN configContext
    ELSE probe.call.out.result.context

\* C24: no call of transition writes to a context object that existed
\* before it: config.context (which is also the context of the initial state
\* and of every descriptor returned without an assign) keeps the key values
\* it was configured with, and a descriptor returned by an earlier call still
\* has the context it was returned with after any later calls.
C24_ContextNeverMutated ==
    /\ configContext = contextOf(config)
    /\ IsCall => last.out.context = contextOf(config)
    /\ (probe.set /\ ~probe.call.out.threw) =>
          KeptContextNow = probe.call.out.result.context

\* C24 happens: a kept descriptor has config.context as its context, and a
\* later call folded object assigns
C24_Witness ==
    /\ probe.set
    /\ ~probe.call.out.threw
    /\ probe.call.out.ref = "config"
    /\ last.op = "transition"
    /\ ~last.kept
    /\ config.id = "assigner"
    /\ last.event = Str("GO")
    /\ ~last.out.threw
    /\ last.out.ref = "fresh"
    /\ last.out.result.context # contextOf(config)

\* the value an object assignment gives to a key: the literal, or what the
\* updater returns for ctx and the event of the call
AssignedValue(v, ctx) ==
    IF v.typeof = "function" THEN Call(v.name, ctx, lastEvent)
    ELSE IF v.typeof = "number" THEN v.num
    ELSE v.str

\* C25: every object assign a call of transition folds leaves a context
\* whose keys are those of the context before it and those it lists; a
\* listed key holds its literal, or what its updater returns for the
\* context as it was before this assign and the event object; a key it
\* does not list holds what it held before.
C25_ObjectAssign ==
    (IsCall /\ ~last.out.threw) =>
        \A i \in 1..Len(last.out.folded) :
           LET step == last.out.folded[i]
               a == step.action.assignment
           IN a.typeof = "object" =>
                 /\ DOMAIN step.after = DOMAIN step.before \cup DOMAIN a.obj
                 /\ \A k \in DOMAIN a.obj :
                       step.after[k] = AssignedValue(a.obj[k], step.before)
                 /\ \A k \in DOMAIN step.before \ DOMAIN a.obj :
                       step.after[k] = step.before[k]

\* C25 happens: SWAP folded an assign whose two updaters read each other's
\* key; the two values were exchanged and the key foo, which it does not
\* list, kept its value
C25_Witness ==
    /\ IsCall
    /\ ~last.out.threw
    /\ config.id = "assigner"
    /\ last.event = Str("SWAP")
    /\ Len(last.out.folded) = 2
    /\ DOMAIN last.out.folded[2].action.assignment.obj = {"count", "spare"}
    /\ last.out.folded[2].before = [count |-> 2, spare |-> 0, foo |-> "bar"]
    /\ last.out.result.context = [count |-> 0, spare |-> 2, foo |-> "bar"]

\* C26: every function assign a call of transition folds leaves exactly
\* what the function returns for the context before it and the event
\* object: a key of the context before that the returned object does not
\* have is gone.
C26_FunctionAssignReplaces ==
    (IsCall /\ ~last.out.threw) =>
        \A i \in 1..Len(last.out.folded) :
           LET step == last.out.folded[i]
               a == step.action.assignment
           IN a.typeof = "function" =>
                 /\ step.after = Call(a.name, step.before, lastEvent)
                 /\ \A k \in DOMAIN step.before :
                       k \notin DOMAIN Call(a.name, step.before, lastEvent)
                          => k \notin DOMAIN step.after
                 /\ i = Len(last.out.folded) =>
                       last.out.result.context = step.after

\* C26 happens: REPLACE folded a function assign on a context with the keys
\* count, spare and foo, and only count is left
C26_Witness ==
    /\ IsCall
    /\ ~last.out.threw
    /\ config.id = "assigner"
    /\ last.event = Str("REPLACE")
    /\ Len(last.out.folded) = 3
    /\ last.out.folded[2].action.assignment.typeof = "function"
    /\ DOMAIN last.out.folded[2].before = {"count", "spare", "foo"}
    /\ last.out.folded[2].after = [count |-> 3]
    /\ DOMAIN last.out.result.context = {"count"}

\* the assign actions among the exit actions of the call's state, the
\* actions of the candidate it took and the entry actions of its target, in
\* this order
TakenAssigns ==
    SelectSeq(Norm(ExitOf(lastValue)) \o Norm(ActionsOf(TakenIndex))
                 \o Norm(EntryOf(TargetOf(TakenIndex))),
              LAMBDA a : Get(a, "type") = ASSIGN_ACTION_TYPE)

\* C27: a call of transition that takes a candidate folds the assign
\* actions of the exit, the transition and the entry actions, in this order
\* and in declaration order within each; every assign but the first starts
\* from the context the assign before it produced, and the context returned
\* is the one the last assign produced. A call that takes none folds none.
\* On the logger machine, whose transition lists two increments, the count
\* returned is the count the first increment started from plus 2.
C27_AssignsFoldInOrder ==
    (IsCall /\ ~last.out.threw) =>
        LET folded == last.out.folded
        IN IF Taken
           THEN /\ [i \in 1..Len(folded) |-> folded[i].action] = TakenAssigns
                /\ \A i \in 2..Len(folded) :
                      folded[i].before = folded[i - 1].after
                /\ Len(folded) > 0 =>
                      last.out.result.context = folded[Len(folded)].after
                /\ config.id = "logger" =>
                      /\ Len(folded) = 2
                      /\ last.out.result.context.count
                            = folded[1].before.count + 2
           ELSE folded = <<>>

\* C27 happens: GO folded an exit assign (count + 1), then the transition's
\* assign (spare := count), then the entry assign of B (count * 2)
C27_Witness ==
    /\ Taken
    /\ ~last.out.threw
    /\ config.id = "assigner"
    /\ last.event = Str("GO")
    /\ Len(last.out.folded) = 3
    /\ last.out.folded[1].before = [count |-> 1, spare |-> 0, foo |-> "bar"]
    /\ last.out.result.context = [count |-> 4, spare |-> 2, foo |-> "bar"]

\* C28: a send to a started service whose callbacks do not call the service
\* calls the exec of every action of the state it stored, in order, each
\* with that state's context, which is the context after all assigns of the
\* transition, and with the event object; on the logger machine, whose
\* logging actions stand between and after the two increments, both are
\* called with count = 2.
C28_ExecsSeeFinalContext ==
    (IsSend /\ ~last.threw) =>
        /\ state = last.out.result
        /\ ExecNames(execLog) = ExecNames(WithExec(state.actions))
        /\ \A i \in 1..Len(execLog) :
              /\ execLog[i].context = state.context
              /\ execLog[i].event = lastEvent
        /\ Len(last.out.folded) > 0 =>
              state.context = last.out.folded[Len(last.out.folded)].after
        /\ (config.id = "logger" /\ Taken) =>
              /\ ExecNames(execLog) = <<"log1", "log2">>
              /\ execLog[1].context.count = 2
              /\ execLog[2].context.count = 2

\* C28 happens: the logger service was sent INCREMENT a second time, and
\* the action declared between the two increments was called with count = 2
C28_Witness ==
    /\ IsSend
    /\ ~last.threw
    /\ sends = 2
    /\ config.id = "logger"
    /\ Len(last.out.folded) = 2
    /\ last.out.folded[1].after.count = 1
    /\ Len(execLog) = 2
    /\ execLog[1].exec = "log1"
    /\ execLog[1].context = [count |-> 2]

\* the call took a candidate that declares no target
TakenWithoutTarget ==
    /\ Taken
    /\ ~last.out.threw
    /\ "target" \notin DOMAIN toTransitionObject(lastCandidates[TakenIndex])

\* C29: a call of transition that takes a candidate without target returns
\* the value of the state it was given; the actions it returns are that
\* state's exit actions, then the candidate's actions, then that same
\* state's entry actions, without the assigns; the assigns of the three
\* groups are folded into the context it returns; and changed is true when
\* there was any action or assign.
C29_NoTargetIsSelfTransition ==
    TakenWithoutTarget =>
        LET all == Norm(ExitOf(lastValue)) \o Norm(ActionsOf(TakenIndex))
                      \o Norm(EntryOf(lastValue))
            folded == last.out.folded
        IN /\ last.out.result.value = lastValue
           /\ last.out.result.actions = NonAssign(all)
           /\ Len(folded) = Len(all) - Len(NonAssign(all))
           /\ \A i \in 1..Len(folded) : folded[i].action \in Range(all)
           /\ Len(folded) > 0 =>
                 last.out.result.context = folded[Len(folded)].after
           /\ last.out.result.changed = (all # <<>>)

\* C29 happens: SWAP, which names no target, was taken in A: the value is
\* still A, the actions are A's exit action, the transition's action and
\* A's entry action, and the exit assign and the transition's assign were
\* folded
C29_Witness ==
    /\ TakenWithoutTarget
    /\ config.id = "assigner"
    /\ last.event = Str("SWAP")
    /\ last.out.result.value = "A"
    /\ [i \in 1..3 |-> last.out.result.actions[i].type]
          = <<"exitA", "swapped", "entryA">>
    /\ last.out.result.context = [count |-> 0, spare |-> 2, foo |-> "bar"]
    /\ last.out.result.changed

\* candidate f of the call is falsy and the guard of every candidate before
\* it is not satisfied
FalsyReached(f) ==
    /\ IsCall
    /\ lastValue \in DOMAIN config.states
    /\ f \in 1..Len(lastCandidates)
    /\ Falsy(lastCandidates[f])
    /\ \A i \in 1..(f - 1) :
          /\ ~Falsy(lastCandidates[i])
          /\ ~GuardOf(i, last.out.context)
          /\ HasContext => ~GuardOf(i, lastState.context)

\* the result of the call is the no-match result
NoMatchResult ==
    /\ ~last.out.threw
    /\ last.out.result.value = lastValue
    /\ last.out.result.changed = FALSE
    /\ last.out.result.actions = <<>>
    /\ last.out.folded = <<>>
    /\ last.out.ran = <<>>

\* C30: when the candidates of the event have a falsy entry and no guard
\* before it is satisfied, the call returns the no-match result and has
\* evaluated the guards before the falsy entry only, whatever candidates
\* follow it; a call for an event the state has no `on` entry for returns
\* the no-match result too, having evaluated no guard.
C30_FalsyCandidateStops ==
    /\ IsCall =>
          \A f \in 1..Len(lastCandidates) :
             FalsyReached(f) =>
                /\ NoMatchResult
                /\ Len(last.out.conds) = f - 1
    /\ (IsCall /\ Unhandled /\ "on" \in DOMAIN config.states[lastValue]) =>
          /\ NoMatchResult
          /\ last.out.conds = <<>>

\* C30 happens: SKIP lists a candidate whose guard is false, then undefined,
\* then a candidate without guard; the call stopped at the second entry
C30_Witness ==
    /\ FalsyReached(2)
    /\ Len(lastCandidates) = 3
    /\ GuardOf(3, last.out.context)
    /\ Len(last.out.conds) = 1
    /\ last.out.result.value = "A"

\* the methods called on the bulb so far
Called == {bulbCalls[i].method : i \in 1..Len(bulbCalls)}

\* the number of calls of toggle so far
Toggles == Cardinality({i \in 1..Len(bulbCalls) : bulbCalls[i].method = "toggle"})

\* C31: after any sequence of calls the bulb is lit, unlit or broken, and
\* so is every value value() returned; once break() was called the bulb is
\* broken and every later value() returned 'broken'; as long as it was not
\* called the bulb is lit after an odd number of calls of toggle() and unlit
\* after an even number.
C31_BetterBulbHasNoImpossibleState ==
    /\ bulb.state \in {"lit", "unlit", "broken"}
    /\ \A i \in 1..Len(bulbCalls) :
          bulbCalls[i].method = "value" =>
             /\ bulbCalls[i].returned \in {"lit", "unlit", "broken"}
             /\ (\E j \in 1..(i - 1) : bulbCalls[j].method = "break")
                   => bulbCalls[i].returned = "broken"
    /\ "break" \in Called => bulb.state = "broken"
    /\ "break" \notin Called =>
          bulb.state = (IF Toggles % 2 = 1 THEN "lit" ELSE "unlit")

\* C31 happens: the bulb was switched on, broken and toggled again, and
\* value() then returned 'broken'
C31_Witness ==
    /\ Len(bulbCalls) = 4
    /\ bulbCalls[1].method = "toggle"
    /\ bulbCalls[2].method = "break"
    /\ bulbCalls[3].method = "toggle"
    /\ bulbCalls[4] = [method |-> "value", returned |-> "broken"]
    /\ bulb.state = "broken"

\* the targets the candidates of a configuration declare
TargetsOf(c) ==
    {tr.target :
        tr \in {t \in UNION {UNION {{toTransitionObject(x) :
                                        x \in {y \in Range(toArray(c.states[v].on[type])) :
                                                   ~Falsy(y)}} :
                                     type \in DOMAIN c.states[v].on} :
                              v \in {w \in DOMAIN c.states :
                                        "on" \in DOMAIN c.states[w]}} :
                    "target" \in DOMAIN t}}

\* the initial state and every target of the configuration are states of it
WellFormed(c) ==
    /\ c.initial \in DOMAIN c.states
    /\ TargetsOf(c) \subseteq DOMAIN c.states

\* C32: in a service of a configuration whose initial state and targets are
\* all states of it, the value of the current state is a state of the
\* configuration after any calls of start, stop, send, subscribe and
\* unsubscribe, and no send to the started service has its transition throw.
C32_ValueIsAConfiguredState ==
    (WellFormed(config) /\ service) =>
        /\ state.value \in DOMAIN config.states
        /\ IsSend => (~last.out.threw /\ ~last.threw)

\* C32 happens: the light-bulb service, stopped and started again with a
\* listener, has processed three sends and its bulb is broken
C32_Witness ==
    /\ WellFormed(config)
    /\ service
    /\ IsSend
    /\ sends = 3
    /\ listeners # <<>>
    /\ state.value = "broken"
    /\ lastValue = "lit"

\* the states stored by the calls of send in a trace, in order
StoredStates(t) ==
    LET stores == EntriesOf(t, "store")
    IN [i \in 1..Len(stores) |-> stores[i].state]

\* the states a listener was called with in a trace, in order
DeliveredTo(t, listener) ==
    LET told == SelectSeq(t, LAMBDA e : e.kind = "notify" /\ e.listener = listener)
    IN [i \in 1..Len(told) |-> told[i].state]

\* C33: when a send to a started service returns, every subscribed listener
\* was called with exactly the states that were stored as the current state
\* during that send, in the order they were stored, also when an action or a
\* listener called send while the send was running.
C33_ListenersSeeEveryStoredState ==
    (IsSend /\ ~last.threw) =>
        \A l \in Range(listeners) :
           DeliveredTo(last.trace, l) = StoredStates(last.trace)

\* C34: every exec a call of send invokes is called with the context of the
\* state that this call stored as the result of its transition, also when
\* an action called before it made a call of send that stored another state.
C34_ExecGetsOwnContext ==
    IsSend =>
        LET t == last.trace
        IN \A p \in Frames(t) :
              t[p + 1].kind = "store" =>
                 \A i \in Own(t, p) :
                    t[i].kind = "exec" =>
                       t[i].context = t[p + 1].state.context


\* the calls on a service other than send
OtherCalls == {"start", "stop", "subscribe", "unsubscribe", "currentState"}

\* C35: only send changes the current state. A step of start, stop,
\* subscribe, unsubscribe or currentState leaves the state descriptor of the
\* service as it was (stop in particular does not put the initial state
\* back), currentState returns it, and a start, also one after a stop,
\* calls every listener with it.
C35_OnlySendChangesState ==
    [][(service /\ last'.op \in OtherCalls) =>
          /\ state' = state
          /\ last'.op = "currentState" => last'.returned = state
          /\ last'.op = "start" =>
                 notified' = [i \in 1..Len(listeners) |->
                                 [listener |-> listeners[i], state |-> state]]]_vars

\* a service that was started, sent events until it left the initial state,
\* stopped, given a listener and started again: the listener is called with
\* the state the sends had reached
C35_Witness ==
    /\ last.op = "start"
    /\ ~last.started
    /\ sends > 0
    /\ state.value # config.initial
    /\ state.changed = TRUE
    /\ notified # <<>>
    /\ notified[1].state = state


\* the execs among the actions of a state descriptor
ExecsIn(descriptor) ==
    {a.exec : a \in {b \in Range(descriptor.actions) : "exec" \in DOMAIN b}}

\* C36: the interpreter never executes the entry actions of the initial
\* state. No call on the service but a send on a started service invokes an
\* action exec (start in particular invokes none, whatever
\* machine.initialState.actions lists), and every exec a send invokes is an
\* action of a state that this send has stored before, called while a state
\* stored by this send is the current one.
C36_NoExecWithoutSend ==
    [][service' =>
          IF last'.op = "send" /\ last'.started
          THEN LET t == last'.trace
               IN \A i \in 1..Len(t) :
                     t[i].kind = "exec" =>
                        /\ \E j \in 1..(i - 1) :
                              /\ t[j].kind = "store"
                              /\ t[i].exec \in ExecsIn(t[j].state)
                        /\ \E j \in 1..(i - 1) :
                              /\ t[j].kind = "store"
                              /\ t[i].current = t[j].state
          ELSE execLog' = <<>>]_vars

\* the entry counter, whose initial state lists an assign action and the
\* exec entryIdle, started with a listener: the listener got the initial
\* state with its actions, and no exec was called
C36_Witness ==
    /\ last.op = "start"
    /\ ~last.started
    /\ sends = 0
    /\ state = initialState(config)
    /\ "entryIdle" \in ExecsIn(state)
    /\ notified # <<>>
    /\ notified[1].state = state
    /\ execLog = <<>>


\* a call of send on a started service whose call of machine.transition threw
TransitionFailed(call) == call.op = "send" /\ call.started /\ call.out.threw

\* C37: a failing transition leaves the service untouched. When
\* machine.transition throws during a send, send throws that error to its
\* caller, the state descriptor of the service is the one it had before, no
\* exec and no listener was called, the service is still started with the
\* listeners it had, and a send that follows is processed from that same
\* descriptor.
C37_FailedTransitionLeavesService ==
    [][/\ TransitionFailed(last') =>
             /\ last'.threw
             /\ last'.error = last'.out.error
             /\ state' = state
             /\ execLog' = <<>>
             /\ notified' = <<>>
             /\ isStarted'
             /\ listeners' = listeners
       /\ (TransitionFailed(last) /\ last'.op = "send") =>
             /\ last'.started
             /\ last'.s = last.s
             /\ last'.out = transition(config, configContext, last.s,
                                       last'.event)]_vars

\* the multi-choice machine, started with a listener and sent LOST, whose
\* target is no state, after an earlier send
C37_Witness ==
    /\ TransitionFailed(last)
    /\ last.event = Str("LOST")
    /\ last.threw
    /\ sends > 1
    /\ isStarted
    /\ listeners # <<>>
    /\ state.value = "A"
    /\ notified = <<>>


\* the call of send that made entry i of a trace: the index of its first
\* entry
FrameOf(t, i) ==
    CHOOSE p \in Frames(t) :
        /\ p < i
        /\ t[p].depth = t[i].depth
        /\ \A q \in Frames(t) : (q < i /\ t[q].depth = t[i].depth) => q <= p

\* whether sequence a is the beginning of sequence b
IsPrefixOf(a, b) == Len(a) <= Len(b) /\ a = SubSeq(b, 1, Len(a))

\* the execs a call of send invoked itself, from its first entry p on
OwnExecs(t, p) ==
    SelectSeq([k \in 1..(Len(t) - p) |-> t[p + k]],
              LAMBDA e : e.depth = t[p].depth /\ e.kind = "exec")

\* C38: a failing action leaves the new state committed but unannounced.
\* When an exec called by a send throws, that send has stored the state its
\* transition returned before, and the state of the service remains the one
\* stored last before the throw (this send's new state, unless a send called
\* by an earlier callback stored a later one); the execs this send called
\* are the first ones of the new state's actions up to the one that threw,
\* no exec is called afterwards, and this send calls no listener.
C38_FailedActionKeepsNewState ==
    IsSend =>
        LET t == last.trace
        IN \A i \in 2..Len(t) :
              (t[i].kind = "raise" /\ t[i - 1].kind = "exec") =>
                 LET p == FrameOf(t, i)
                     own == OwnExecs(t, p)
                 IN /\ t[p + 1].kind = "store"
                    /\ state = StateBefore(t, i, last.s.obj)
                    /\ state = t[i - 1].current
                    /\ (\A k \in (p + 2)..i : t[k].kind # "store") =>
                           state = t[p + 1].state
                    /\ IsPrefixOf(ExecNames(own),
                                  ExecNames(WithExec(t[p + 1].state.actions)))
                    /\ own[Len(own)] = t[i - 1]
                    /\ \A k \in (i + 1)..Len(t) : t[k].kind = "throw"
                    /\ \A k \in p..Len(t) :
                          t[k].depth = t[p].depth => t[k].kind # "notify"

\* the lit bulb with two listeners is sent BREAK and the second of its three
\* execs throws: the state is broken, the third exec was not called, and no
\* listener was called
C38_Witness ==
    /\ IsSend
    /\ last.threw
    /\ last.s.obj.value = "lit"
    /\ state = last.out.result
    /\ state.value = "broken"
    /\ Len(WithExec(state.actions)) = 3
    /\ Len(execLog) = 2
    /\ last.trace[Len(last.trace) - 1].kind = "raise"
    /\ Len(listeners) = 2
    /\ notified = <<>>


\* C39: subscribe itself never notifies. A step of subscribe calls no
\* listener and no exec, on a started and on a stopped service alike; on a
\* service only send and start call listeners, so a listener subscribed to
\* a started service is first called by the send or start that follows,
\* with the state that call leaves; and a start of a service that is not
\* started and has processed no send calls every subscribed listener once,
\* with machine.initialState.
C39_SubscribeNeverNotifies ==
    [][service' =>
          /\ last'.op = "subscribe" => (notified' = <<>> /\ execLog' = <<>>)
          /\ notified' # <<>> => last'.op \in {"send", "start"}
          /\ (last.op = "subscribe" /\ last'.op = "start") =>
                 [listener |-> last.listener, state |-> state'] \in Range(notified')
          /\ (last.op = "subscribe" /\ isStarted /\ last'.op = "send"
                 /\ ~last'.threw) =>
                 [listener |-> last.listener, state |-> state'] \in Range(notified')
          /\ (last'.op = "start" /\ ~last'.started /\ sends = 0) =>
                 notified' = [i \in 1..Len(listeners) |->
                                 [listener |-> listeners[i],
                                  state |-> initialState(config)]]]_vars


\* a second listener is subscribed to a started service that has processed
\* sends and left the initial state: nobody is called
C39_Witness ==
    /\ last.op = "subscribe"
    /\ isStarted
    /\ sends > 0
    /\ state.value # config.initial
    /\ Len(last.had) = 1
    /\ Len(listeners) = 2
    /\ listeners[2] = last.listener
    /\ notified = <<>>

====
